---- MODULE Spec2Model ----
(***************************************************************************)
(* State-machine model of the content script of the Vinted book lister    *)
(* (src/unnamed/part_004, class VintedAutofiller): the message handler,    *)
(* the autofill orchestrator with its field steps, the image uploader      *)
(* with its three strategies, and the in-page status indicator.            *)
(*                                                                         *)
(* Scheduling: the script runs on the page's single thread.  An action of  *)
(* the model is the code that runs between two suspension points (an       *)
(* await on a timer, on a fetch, on the clipboard, or on a promise that    *)
(* has already settled).  Between two such segments the host page may run  *)
(* and change its DOM (PageRender, PageRenderUpload).                       *)
(***************************************************************************)
EXTENDS Integers, Sequences, FiniteSets, TLC

\* waitForFormReady: const maxWaitTime = 10000 (ms)
maxWaitTime == 10000
\* waitForFormReady: await this.sleep(500) between two polls (ms)
PollInterval == 500

\* the logical fields of the form (the keys of VintedSelectors the steps use)
Fields == {"title", "description", "category", "brand", "isbn", "condition", "price"}

\* the page contexts' message deliveries that can be in flight together
Runs == {"r1", "r2"}

\* settings of a request: the two flags that decide control flow
SettingsSet == [autoFillTitle : BOOLEAN, autoFillDescription : BOOLEAN]

\* books of a request: the properties of the listing record the steps branch on
Books ==
    { [publisher |-> TRUE,  isbn |-> TRUE,  price |-> 950],
      [publisher |-> FALSE, isbn |-> FALSE, price |-> 0] }

NoRequest == [action |-> "none"]

VARIABLES
    visible,      \* fields for which findElement finds a visible element now
    pc,           \* per run: position of the autofill run
    stepIdx,      \* per run: the loop index i of autofillForm (1-based)
    evIdx,        \* per run: events dispatched so far by fillInputField
    elapsed,      \* per run: Date.now() - startTime in waitForFormReady (0 outside)
    request,      \* per run: the message being served
    attempted,    \* per run: the steps started so far, in order (history)
    outcome,      \* per run: per finished step, "returned" or "threw" (history)
    titleSeen,    \* per run: title was visible at some moment of the wait
    responses,    \* per run: the responses passed to sendResponse (history)
    indicator,    \* the status indicator element: display, text, color
    hideTimers,   \* number of pending setTimeout(hideIndicator) callbacks
    lastWriter,   \* the run that started the latest field step (history)
    interleaved,  \* a run started a step after another run wrote in between
    upc,          \* position of the uploadImages operation
    photos,       \* the photos of the request: the kind of each dataUrl
    conv,         \* per photo: state of its dataUrlToFile call
    uploadDom,    \* which upload elements the page has: file input, drop zone
    inputFiles,   \* fileInput.files.length
    filesPassed,  \* files.length handed to tryUploadMethods (history)
    methodIdx,    \* the loop index i of tryUploadMethods (1-based)
    dragIdx,      \* drag events dispatched so far by uploadViaDragDrop
    methodsTried, \* the upload methods called so far, in order (history)
    methodResult, \* per finished method, "returned" or "threw" (history)
    countRead,    \* the file count uploadViaFileInput read back, -1 before
    uresponses,   \* the responses passed to sendResponse for uploadImages
    domLog,       \* per run: what the step in progress did to its element (history)
    uploadOps,    \* what uploadImages did to the page's upload elements (history)
    call,         \* a single engine call under study: its arguments and the page
    ret,          \* what that call did and returned
    listeners,    \* chrome.runtime.onMessage listeners the script has registered
    observers,    \* per observePageChanges call: the lastUrl of its observer
    setupTimers,  \* pending setTimeout(() => this.setupAutofiller(), ...)
    showTimers,   \* pending start-up timers of addExtensionIndicator
    url,          \* window.location: the listing page or another page
    inbox,        \* the message being delivered to the listeners
    answers,      \* the responses passed to sendResponse for it, synchronously
    books,        \* book store: get().books, the list in memory
    storage,      \* book store: the 'books' key of chrome.storage.local
    ops,          \* book store: per operation, its kind, argument and position
    saveQueue     \* book store: the storage.local.set calls not yet settled

avars == <<visible, pc, stepIdx, evIdx, elapsed, request, attempted, outcome,
           titleSeen, responses, lastWriter, interleaved, domLog>>
ivars == <<indicator, hideTimers>>
uvars == <<upc, photos, conv, uploadDom, inputFiles, filesPassed, methodIdx,
           dragIdx, methodsTried, methodResult, countRead, uresponses, uploadOps>>
evars == <<call, ret>>
mvars == <<listeners, observers, setupTimers, showTimers, url, inbox, answers>>
svars == <<books, storage, ops, saveQueue>>
vars == <<avars, ivars, uvars, evars, mvars, svars>>

----------------------------------------------------------------------------
\* autofillForm: the steps array, in the order it is iterated
steps == <<"title", "description", "category", "brand", "isbn", "condition", "price">>

\* findElement, abstracted to its result for a field's selector list
findElement(f) == f \in visible

\* updateIndicator (the indicator element is present once set up); a text is
\* the tuple of the parts of its template literal, the icon named in ASCII
updateIndicator(text, color) == [display |-> "flex", text |-> text, color |-> color]

showLoadingMessage(message) == updateIndicator(<<"hourglass", message>>, "#f59e0b")

showSuccessMessage(message) == updateIndicator(<<"check", message>>, "#10b981")

\* showErrorMessage as if it painted the success state
showErrorMessageAsSuccess(message) == updateIndicator(<<"check">> \o message, "#10b981")

showErrorMessage(message) == updateIndicator(<<"cross">> \o message, "#ef4444")

\* hideIndicator
hideIndicator == [indicator EXCEPT !.display = "none"]

\* the variables a continuation of a run decides
cvars == <<pc, stepIdx, evIdx, attempted, outcome, lastWriter, interleaved,
           responses, indicator, hideTimers>>

\* SleepOutcomes as if Date.now() stood still across a sleep
SleepOutcomesFrozenClock(e) == {e}

\* sleep(500) seen through Date.now(): the timer fires after the delay or,
\* when the tab is throttled, arbitrarily later (every value at or past
\* maxWaitTime behaves alike, so the elapsed time is capped there)
SleepOutcomes(e) ==
    { IF e + PollInterval < maxWaitTime THEN e + PollInterval ELSE maxWaitTime,
      maxWaitTime }

----------------------------------------------------------------------------
(* Init: the listener is registered, the indicator element exists and its  *)
(* start-up show/hide timers have run; the page shows any subset of the     *)
(* fields.                                                                  *)
InitRuns ==
    /\ pc = [r \in Runs |-> "idle"]
    /\ stepIdx = [r \in Runs |-> 0]
    /\ evIdx = [r \in Runs |-> 0]
    /\ elapsed = [r \in Runs |-> 0]
    /\ request = [r \in Runs |-> NoRequest]
    /\ attempted = [r \in Runs |-> << >>]
    /\ outcome = [r \in Runs |-> << >>]
    /\ titleSeen = [r \in Runs |-> FALSE]
    /\ responses = [r \in Runs |-> << >>]
    /\ indicator = [display |-> "none",
                    text |-> <<"Book Lister Ready (Images Supported)">>,
                    color |-> "#0ea5e9"]
    /\ hideTimers = 0
    /\ lastWriter = "none"
    /\ interleaved = FALSE
    /\ domLog = [r \in Runs |-> << >>]

InitUploader ==
    /\ upc = "idle"
    /\ photos = << >>
    /\ conv = << >>
    /\ inputFiles = 0
    /\ filesPassed = 0
    /\ methodIdx = 0
    /\ dragIdx = 0
    /\ methodsTried = << >>
    /\ methodResult = << >>
    /\ countRead = -1
    /\ uresponses = << >>
    /\ uploadOps = {}

\* book ids of the store, and the operations that can overlap
BookIds == {"b1", "b2", "b3"}
OpIds == {"o1", "o2"}

NoMessage == [action |-> "none"]

\* setupAutofiller has run once, on the listing page: one listener, one
\* observer whose lastUrl is the listing page, the indicator's start-up
\* timers have run
InitListener ==
    /\ listeners = 1
    /\ observers = <<"listing">>
    /\ setupTimers = 0
    /\ showTimers = 0
    /\ url = "listing"
    /\ inbox = NoMessage
    /\ answers = << >>

\* the book store after fetchBooks, memory and storage agreeing
InitStore ==
    /\ books = << >>
    /\ storage = << >>
    /\ ops = [o \in OpIds |-> [pc |-> "idle"]]
    /\ saveQueue = << >>

\* no single engine call is under study
NoEngineCall ==
    /\ call = [fn |-> "none"]
    /\ ret = [state |-> "none"]

\* the form shows any subset of the fields
Init ==
    /\ visible \in SUBSET Fields
    /\ uploadDom = [fileInput |-> TRUE, dropZone |-> TRUE]
    /\ InitRuns
    /\ InitUploader
    /\ InitListener
    /\ InitStore
    /\ NoEngineCall

\* the page has any of the upload elements
InitUploadPage ==
    /\ visible = Fields
    /\ uploadDom \in [fileInput : BOOLEAN, dropZone : BOOLEAN]
    /\ InitRuns
    /\ InitUploader
    /\ InitListener
    /\ InitStore
    /\ NoEngineCall

----------------------------------------------------------------------------
\* handleMessage: sendResponse({ success: true })
SuccessResponse == [success |-> TRUE, error |-> ""]

\* handleMessage: sendResponse({ success: false, error: error.message })
ErrorResponse(msg) == [success |-> FALSE, error |-> msg]

(* autofillForm, outer catch, and handleMessage's .catch: the error is      *)
(* shown, rethrown, and answered with {success: false, error}.              *)
AutofillFail(r, msg) ==
    /\ pc' = [pc EXCEPT ![r] = "done"]
    /\ indicator' = showErrorMessage(<<"Autofill failed: ", msg>>)
    /\ hideTimers' = hideTimers + 1
    /\ responses' = [responses EXCEPT ![r] =
                        Append(@, ErrorResponse(msg))]
    /\ UNCHANGED <<stepIdx, evIdx, attempted, outcome, lastWriter, interleaved, domLog>>

\* AutofillFinish as if the run took its terminal state from what the shared
\* indicator shows: an error painted by another operation fails the run
AutofillFinishFromIndicator(r) ==
    IF indicator.color = "#ef4444"
    THEN AutofillFail(r, "Image upload failed")
    ELSE /\ pc' = [pc EXCEPT ![r] = "done"]
         /\ indicator' = showSuccessMessage("Form filled successfully!")
         /\ hideTimers' = hideTimers + 1
         /\ responses' = [responses EXCEPT ![r] = Append(@, SuccessResponse)]
         /\ UNCHANGED <<stepIdx, evIdx, attempted, outcome, lastWriter,
                        interleaved, domLog>>

(* autofillForm after the loop, and handleMessage's .then                   *)
AutofillFinish(r) ==
    /\ pc' = [pc EXCEPT ![r] = "done"]
    /\ indicator' = showSuccessMessage("Form filled successfully!")
    /\ hideTimers' = hideTimers + 1
    /\ responses' = [responses EXCEPT ![r] =
                        Append(@, SuccessResponse)]
    /\ UNCHANGED <<stepIdx, evIdx, attempted, outcome, lastWriter, interleaved, domLog>>

\* a step's call returned: its outcome is recorded, then await sleep(300)
StepReturns(r) ==
    /\ outcome' = [outcome EXCEPT ![r] = Append(@, "returned")]
    /\ pc' = [pc EXCEPT ![r] = "gap"]
    /\ evIdx' = [evIdx EXCEPT ![r] = 0]

\* a step's call threw: the rejection is awaited into the loop's catch
StepThrows(r) ==
    /\ outcome' = [outcome EXCEPT ![r] = Append(@, "threw")]
    /\ pc' = [pc EXCEPT ![r] = "caught"]
    /\ evIdx' = [evIdx EXCEPT ![r] = 0]

\* events as if change were dispatched before input
eventsChangeFirst == <<"change", "input", "blur">>

\* fillInputField / fillTextareaField: the events array, in dispatch order
events == <<"input", "change", "blur">>

\* a log entry: the value assignment, or one dispatchEvent with the event's
\* bubbles flag; `live` tells whether the element was still found visible
\* on the page when the engine acted on it
Assigned == [op |-> "value", bubbles |-> FALSE, live |-> TRUE]
Dispatched(type, live) == [op |-> type, bubbles |-> TRUE, live |-> live]

\* FillBegins as if autofillForm called steps[i]() without awaiting it: the
\* loop goes on to sleep(300) while the events are still being dispatched
FillBeginsNotAwaited(r) ==
    /\ outcome' = outcome
    /\ pc' = [pc EXCEPT ![r] = "gap"]
    /\ evIdx' = [evIdx EXCEPT ![r] = 1]

\* fillInputField / fillTextareaField up to the first sleep(50): focus,
\* select, native setter, dispatch of the first event
FillBegins(r) ==
    /\ outcome' = outcome
    /\ pc' = [pc EXCEPT ![r] = "events"]
    /\ evIdx' = [evIdx EXCEPT ![r] = 1]

\* fillTitle / fillDescription: a disabled step returns, a missing field throws
FillRequired(r, f, enabled) ==
    IF ~enabled THEN StepReturns(r)
    ELSE IF findElement(f) THEN FillBegins(r)
    ELSE StepThrows(r)

\* fillBrand / fillISBN / fillPrice: no value returns, a missing field is logged
FillOptional(r, f, hasValue) ==
    IF ~hasValue THEN StepReturns(r)
    ELSE IF findElement(f) THEN FillBegins(r)
    ELSE StepReturns(r)

\* setCategory / setCondition up to their first suspension
SetDropdown(r, f) ==
    IF ~findElement(f) THEN StepReturns(r)
    ELSE \E tagName \in {"SELECT", "BUTTON"} :
           IF tagName = "SELECT"
           THEN \* setSelectValue returns, an option matched or none did
                StepReturns(r)
           ELSE \* clickDropdownOption: element.click(); await sleep(500)
                /\ outcome' = outcome
                /\ pc' = [pc EXCEPT ![r] = "dropdown"]
                /\ evIdx' = [evIdx EXCEPT ![r] = 0]

\* steps[i](): the synchronous part of step i of run r
StepBody(r, i) ==
    LET f == steps[i]
        s == request[r].settings
        b == request[r].book
    IN  CASE f = "title"       -> FillRequired(r, f, s.autoFillTitle)
          [] f = "description" -> FillRequired(r, f, s.autoFillDescription)
          [] f = "category"    -> SetDropdown(r, f)
          [] f = "brand"       -> FillOptional(r, f, b.publisher)
          [] f = "isbn"        -> FillOptional(r, f, b.isbn)
          [] f = "condition"   -> SetDropdown(r, f)
          [] f = "price"       -> FillOptional(r, f, b.price > 0)

\* one iteration of the loop of autofillForm begins: steps[i]() is called
CallStep(r, i) ==
    /\ stepIdx' = [stepIdx EXCEPT ![r] = i]
    /\ attempted' = [attempted EXCEPT ![r] = Append(@, steps[i])]
    /\ lastWriter' = r
    /\ interleaved' = (interleaved \/ (attempted[r] # << >> /\ lastWriter # r))
    /\ StepBody(r, i)
    \* a step that is now inside fillInputField has assigned the value and
    \* dispatched the first event on the element it has just located
    /\ domLog' = [domLog EXCEPT ![r] =
                     IF pc'[r] = "events"
                     THEN <<Assigned, Dispatched(events[1], TRUE)>>
                     ELSE << >>]
    /\ UNCHANGED <<responses, indicator, hideTimers>>

\* the loop head: for (let i = 0; i < steps.length; i++)
NextIteration(r) ==
    IF stepIdx[r] < Len(steps) THEN CallStep(r, stepIdx[r] + 1) ELSE AutofillFinish(r)

\* StepCaught as if the catch left the loop (break)
StepCaughtBreaks(r) == AutofillFinish(r)

\* StepCaught as if the catch rethrew the step's error
StepCaughtRethrows(r) ==
    AutofillFail(r, IF steps[stepIdx[r]] = "title" THEN "Title field not found"
                    ELSE "Description field not found")

\* the loop's catch: the error is logged and the loop goes on
StepCaught(r) == NextIteration(r)

\* FormWaitExpired as if the wait gave up silently and returned
FormWaitExpiredReturns(r) ==
    /\ pc' = [pc EXCEPT ![r] = "ready"]
    /\ UNCHANGED <<stepIdx, evIdx, attempted, outcome, lastWriter, interleaved,
                   responses, indicator, hideTimers, domLog>>

\* FormWaitExpired as if the wait were silently started again
FormWaitExpiredRetries(r) ==
    /\ pc' = [pc EXCEPT ![r] = "polling"]
    /\ UNCHANGED <<stepIdx, evIdx, attempted, outcome, lastWriter, interleaved,
                   responses, indicator, hideTimers, domLog>>

\* waitForFormReady ran out of time: throw new Error(...)
FormWaitExpired(r) == AutofillFail(r, "Form not ready within timeout period")

----------------------------------------------------------------------------
(* handleMessage, case 'autofill': autofillForm runs up to its first        *)
(* suspension, which is inside waitForFormReady (first poll at elapsed 0).  *)
ReceiveAutofill(r, s, b) ==
    /\ pc[r] = "idle"
    /\ request' = [request EXCEPT ![r] =
                      [action |-> "autofill", settings |-> s, book |-> b]]
    /\ indicator' = showLoadingMessage("Filling form...")
    /\ elapsed' = [elapsed EXCEPT ![r] = 0]
    /\ titleSeen' = [titleSeen EXCEPT ![r] = findElement("title")]
    /\ pc' = [pc EXCEPT ![r] = IF findElement("title") THEN "ready" ELSE "polling"]
    /\ UNCHANGED <<visible, stepIdx, evIdx, attempted, outcome, responses,
                   hideTimers, lastWriter, interleaved, domLog>>
    /\ UNCHANGED <<uvars, evars, mvars, svars>>

(* waitForFormReady: the sleep(500) timer fires, the loop condition is       *)
(* tested and, within the bound, the title field is polled again.            *)
PollWake(r) ==
    /\ pc[r] = "polling"
    /\ \E e \in SleepOutcomes(elapsed[r]) :
         /\ elapsed' = [elapsed EXCEPT ![r] =
                           IF e < maxWaitTime /\ findElement("title") THEN 0 ELSE e]
         /\ IF e < maxWaitTime
            THEN /\ pc' = [pc EXCEPT ![r] =
                             IF findElement("title") THEN "ready" ELSE "polling"]
                 /\ UNCHANGED <<stepIdx, evIdx, attempted, outcome, lastWriter,
                                interleaved, responses, indicator, hideTimers, domLog>>
            ELSE FormWaitExpired(r)
    /\ UNCHANGED <<visible, request, titleSeen>>
    /\ UNCHANGED <<uvars, evars, mvars, svars>>

(* await waitForFormReady() resumes: the loop starts with the first step     *)
StartSteps(r) ==
    /\ pc[r] = "ready"
    /\ NextIteration(r)
    /\ UNCHANGED <<visible, elapsed, request, titleSeen>>
    /\ UNCHANGED <<uvars, evars, mvars, svars>>

(* fillInputField / fillTextareaField: a sleep(50) timer fires; the next     *)
(* event is dispatched or, after the third, the field is highlighted and     *)
(* the step returns.                                                         *)
EventWake(r) ==
    /\ pc[r] = "events"
    /\ IF evIdx[r] < Len(events)
       THEN /\ evIdx' = [evIdx EXCEPT ![r] = @ + 1]
            \* element.dispatchEvent(event) on the reference held since the
            \* step began, whatever the page did to the element meanwhile
            /\ domLog' = [domLog EXCEPT ![r] =
                  Append(@, Dispatched(events[evIdx[r] + 1],
                                       findElement(steps[stepIdx[r]])))]
            /\ UNCHANGED <<pc, outcome>>
       ELSE /\ StepReturns(r)
            /\ UNCHANGED domLog
    /\ UNCHANGED <<visible, elapsed, request, titleSeen, stepIdx, attempted,
                   lastWriter, interleaved, responses, indicator, hideTimers>>
    /\ UNCHANGED <<uvars, evars, mvars, svars>>

(* clickDropdownOption: the sleep(500) after opening fires; an option that   *)
(* matches is clicked, or the body is clicked and the call returns.          *)
DropdownWake(r) ==
    /\ pc[r] = "dropdown"
    /\ \E matched \in BOOLEAN :
         IF matched
         THEN /\ pc' = [pc EXCEPT ![r] = "optionClicked"]
              /\ UNCHANGED <<outcome, evIdx>>
         ELSE StepReturns(r)
    /\ UNCHANGED <<visible, elapsed, request, titleSeen, stepIdx, attempted,
                   lastWriter, interleaved, responses, indicator, hideTimers, domLog>>
    /\ UNCHANGED <<uvars, evars, mvars, svars>>

(* clickDropdownOption: the sleep(200) after the option click fires          *)
OptionWake(r) ==
    /\ pc[r] = "optionClicked"
    /\ StepReturns(r)
    /\ UNCHANGED <<visible, elapsed, request, titleSeen, stepIdx, attempted,
                   lastWriter, interleaved, responses, indicator, hideTimers, domLog>>
    /\ UNCHANGED <<uvars, evars, mvars, svars>>

(* autofillForm: the sleep(300) after a step fires; next iteration or end    *)
GapWake(r) ==
    /\ pc[r] = "gap"
    /\ NextIteration(r)
    /\ UNCHANGED <<visible, elapsed, request, titleSeen>>
    /\ UNCHANGED <<uvars, evars, mvars, svars>>

(* autofillForm: the rejected step promise resumes the loop in its catch     *)
CatchWake(r) ==
    /\ pc[r] = "caught"
    /\ StepCaught(r)
    /\ UNCHANGED <<visible, elapsed, request, titleSeen>>
    /\ UNCHANGED <<uvars, evars, mvars, svars>>

(* a setTimeout(() => this.hideIndicator(), ...) callback fires              *)
HideTimerFire ==
    /\ hideTimers > 0
    /\ hideTimers' = hideTimers - 1
    /\ indicator' = hideIndicator
    /\ UNCHANGED <<avars, uvars, evars, mvars, svars>>

(* the host page re-renders: a field appears or disappears (a re-render that *)
(* changes several fields is a sequence of these between two segments)       *)
PageRender(f) ==
    /\ visible' = IF f \in visible THEN visible \ {f} ELSE visible \cup {f}
    /\ titleSeen' = [r \in Runs |->
                       titleSeen[r] \/ (pc[r] = "polling" /\ "title" \in visible')]
    /\ UNCHANGED <<pc, stepIdx, evIdx, elapsed, request, attempted, outcome,
                   responses, lastWriter, interleaved, indicator, hideTimers, domLog>>
    /\ UNCHANGED <<uvars, evars, mvars, svars>>

RunStep(r) ==
    \/ PollWake(r)
    \/ StartSteps(r)
    \/ EventWake(r)
    \/ DropdownWake(r)
    \/ OptionWake(r)
    \/ GapWake(r)
    \/ CatchWake(r)

\* one autofill message on a page that keeps re-rendering
Next ==
    \/ \E s \in SettingsSet, b \in Books : ReceiveAutofill("r1", s, b)
    \/ RunStep("r1")
    \/ HideTimerFire
    \/ \E f \in Fields : PageRender(f)

Spec == Init /\ [][Next]_vars

\* the end-to-end listing of the popup with every step enabled
FullSettings == [autoFillTitle |-> TRUE, autoFillDescription |-> TRUE]
FullBook == [publisher |-> TRUE, isbn |-> TRUE, price |-> 950]

\* two autofill messages delivered to the same page context, each at any
\* time, on a page that stays as it was found
NextConcurrent ==
    \/ \E r \in Runs : ReceiveAutofill(r, FullSettings, FullBook)
    \/ \E r \in Runs : RunStep(r)
    \/ HideTimerFire

SpecConcurrent == Init /\ [][NextConcurrent]_vars

----------------------------------------------------------------------------
(* The image uploader: uploadImages, dataUrlToFile, findFileInput,          *)
(* tryUploadMethods and its three methods.                                  *)

\* the largest photo batch of a request
MaxPhotos == 2

\* a photo's dataUrl: a blob: URL, a data: URL, or anything else
PhotoKinds == {"blob", "data", "other"}

PhotoBatches == UNION { [1..n -> PhotoKinds] : n \in 0..MaxPhotos }

\* tryUploadMethods: the methods array, in the order it is iterated
methods == <<"fileInput", "dragDrop", "clipboard">>

\* dataUrlToFile up to its first suspension: a blob: or data: URL is fetched,
\* anything else throws 'Unsupported data URL format' inside the try, which
\* rejects the call with 'Failed to convert image data'
dataUrlToFile(kind) == IF kind \in {"blob", "data"} THEN "pending" ELSE "failed"

\* PromiseAll as if the failed conversions were dropped from the batch
PromiseAllSkipsFailures(c) ==
    IF \E p \in DOMAIN c : c[p] = "pending" THEN "pending" ELSE "fulfilled"

\* Promise.all over the conversions: rejected as soon as one is rejected,
\* fulfilled when all are fulfilled
PromiseAll(c) ==
    IF \E p \in DOMAIN c : c[p] = "failed" THEN "rejected"
    ELSE IF \E p \in DOMAIN c : c[p] = "pending" THEN "pending"
    ELSE "fulfilled"

\* findFileInput as if a drop zone were accepted as an upload target
findFileInputOrDropZone == uploadDom.fileInput \/ uploadDom.dropZone

\* findFileInput, abstracted to its result
findFileInput == uploadDom.fileInput

showClipboardInstruction ==
    updateIndicator(<<"clipboard", "Image copied - paste manually (Ctrl+V)">>, "#8b5cf6")

\* uploadImages' catch and handleMessage's .catch
UploadFail(msg) ==
    /\ upc' = "done"
    /\ indicator' = showErrorMessage(<<"Image upload failed: ", msg>>)
    /\ hideTimers' = hideTimers + 1
    /\ uresponses' = Append(uresponses, ErrorResponse(msg))

\* uploadImages after tryUploadMethods returned true, and handleMessage's
\* .then; `shown` counts the indicator messages the method itself scheduled
\* a hide timer for (showSuccessMessage overwrites what they wrote)
UploadSucceeds(shown) ==
    /\ upc' = "done"
    /\ indicator' = showSuccessMessage("Images uploaded successfully!")
    /\ hideTimers' = hideTimers + shown + 1
    /\ uresponses' = Append(uresponses, SuccessResponse)

\* methods[i]() threw: the rejection is awaited into the loop's catch
MethodThrows(res) ==
    /\ methodResult' = Append(res, "threw")
    /\ upc' = "methodCaught"
    /\ UNCHANGED <<inputFiles, dragIdx>>

\* what a method does to the page's upload elements before its first
\* suspension: uploadViaFileInput assigns fileInput.files and dispatches
\* change and input; uploadViaDragDrop looks the drop zone up and, when it
\* is there, dispatches dragenter; uploadViaClipboard touches none of them
MethodOps(m) ==
    CASE m = "fileInput" -> {"assignFiles", "dispatchInputEvents"}
      [] m = "dragDrop" -> IF uploadDom.dropZone
                           THEN {"lookupDropZone", "dispatchDragEvent"}
                           ELSE {"lookupDropZone"}
      [] m = "clipboard" -> {}

\* methods[i](): the synchronous part of method k on n files; res is the
\* record of the methods finished before, done the upload elements touched
\* so far
CallMethod(k, res, n, done) ==
    /\ methodIdx' = k
    /\ methodsTried' = Append(methodsTried, methods[k])
    /\ uploadOps' = done \cup MethodOps(methods[k])
    /\ UNCHANGED <<uresponses, indicator, hideTimers>>
    /\ CASE methods[k] = "fileInput" ->
              \* fileInput.files = dt.files; change and input are dispatched
              \* (the page's handlers may empty the input); await sleep(1000)
              /\ \E kept \in BOOLEAN :
                    inputFiles' = IF kept THEN n ELSE 0
              /\ methodResult' = res
              /\ upc' = "inputWait"
              /\ UNCHANGED dragIdx
         [] methods[k] = "dragDrop" ->
              IF uploadDom.dropZone
              THEN \* dragenter is dispatched; await sleep(100)
                   /\ dragIdx' = 1
                   /\ methodResult' = res
                   /\ upc' = "drag"
                   /\ UNCHANGED inputFiles
              ELSE MethodThrows(res)
         [] methods[k] = "clipboard" ->
              IF n > 0
              THEN \* await navigator.clipboard.write(...)
                   /\ methodResult' = res
                   /\ upc' = "clipboardWait"
                   /\ UNCHANGED <<inputFiles, dragIdx>>
              ELSE \* files[0] is undefined: file.type throws inside the try
                   MethodThrows(res)

\* MethodReturns as if `return true` were missing from the loop body
MethodReturnsGoesOn(shown) ==
    IF methodIdx < Len(methods)
    THEN CallMethod(methodIdx + 1, Append(methodResult, "returned"), filesPassed,
                    uploadOps)
    ELSE /\ methodResult' = Append(methodResult, "returned")
         /\ UploadSucceeds(shown)
         /\ UNCHANGED <<methodIdx, methodsTried, inputFiles, dragIdx, uploadOps>>

\* await methods[i]() returned: tryUploadMethods returns true
MethodReturns(shown) ==
    /\ methodResult' = Append(methodResult, "returned")
    /\ UploadSucceeds(shown)
    /\ UNCHANGED <<methodIdx, methodsTried, inputFiles, dragIdx, uploadOps>>

(* handleMessage, case 'uploadImages': uploadImages shows the loading       *)
(* message and starts every conversion of the batch.                        *)
ReceiveUpload(ps) ==
    /\ upc = "idle"
    /\ photos' = ps
    /\ indicator' = showLoadingMessage("Uploading images...")
    /\ conv' = [p \in DOMAIN ps |-> dataUrlToFile(ps[p])]
    /\ upc' = "converting"
    /\ UNCHANGED <<uploadDom, inputFiles, filesPassed, methodIdx, dragIdx,
                   methodsTried, methodResult, countRead, uresponses, hideTimers,
                   uploadOps>>
    /\ UNCHANGED <<avars, evars, mvars, svars>>

(* dataUrlToFile: the fetch of one photo settles (response.blob() included); *)
(* a conversion goes on after Promise.all has rejected                       *)
FetchSettles(p, ok) ==
    /\ p \in DOMAIN conv
    /\ conv[p] = "pending"
    /\ conv' = [conv EXCEPT ![p] = IF ok THEN "ok" ELSE "failed"]
    /\ UNCHANGED <<upc, photos, uploadDom, inputFiles, filesPassed, methodIdx,
                   dragIdx, methodsTried, methodResult, countRead, uresponses,
                   uploadOps>>
    /\ UNCHANGED <<avars, ivars, evars, mvars, svars>>

\* ConversionsSettle as if uploadImages looked the file input up before it
\* awaited the conversions
ConversionsSettleLooksUpFirst ==
    /\ upc = "converting"
    /\ PromiseAll(conv) # "pending"
    /\ IF PromiseAll(conv) = "rejected"
       THEN /\ UploadFail("Failed to convert image data")
            /\ uploadOps' = uploadOps \cup {"lookupFileInput"}
            /\ UNCHANGED <<filesPassed, methodIdx, dragIdx, methodsTried,
                           methodResult, inputFiles>>
       ELSE IF ~findFileInput
       THEN /\ UploadFail("Photo upload input not found")
            /\ uploadOps' = uploadOps \cup {"lookupFileInput"}
            /\ UNCHANGED <<filesPassed, methodIdx, dragIdx, methodsTried,
                           methodResult, inputFiles>>
       ELSE /\ filesPassed' = Cardinality({p \in DOMAIN conv : conv[p] = "ok"})
            /\ CallMethod(1, methodResult, filesPassed',
                          uploadOps \cup {"lookupFileInput"})
    /\ UNCHANGED <<photos, conv, uploadDom, countRead>>
    /\ UNCHANGED <<avars, evars, mvars, svars>>

(* uploadImages: await Promise.all(...) resumes: on rejection the catch      *)
(* runs; otherwise the file input is looked up and the first method called   *)
ConversionsSettle ==
    /\ upc = "converting"
    /\ PromiseAll(conv) # "pending"
    /\ IF PromiseAll(conv) = "rejected"
       THEN /\ UploadFail("Failed to convert image data")
            /\ UNCHANGED <<filesPassed, methodIdx, dragIdx, methodsTried,
                           methodResult, inputFiles, uploadOps>>
       ELSE IF ~findFileInput
       THEN /\ UploadFail("Photo upload input not found")
            /\ uploadOps' = uploadOps \cup {"lookupFileInput"}
            /\ UNCHANGED <<filesPassed, methodIdx, dragIdx, methodsTried,
                           methodResult, inputFiles>>
       ELSE /\ filesPassed' = Cardinality({p \in DOMAIN conv : conv[p] = "ok"})
            /\ CallMethod(1, methodResult, filesPassed',
                          uploadOps \cup {"lookupFileInput"})
    /\ UNCHANGED <<photos, conv, uploadDom, countRead>>
    /\ UNCHANGED <<avars, evars, mvars, svars>>

(* uploadViaFileInput: the sleep(1000) fires and the file count is read back *)
InputWake ==
    /\ upc = "inputWait"
    /\ countRead' = inputFiles
    /\ IF inputFiles > 0
       THEN MethodReturns(0)
       ELSE /\ MethodThrows(methodResult)
            /\ UNCHANGED <<methodIdx, methodsTried, uresponses, indicator, hideTimers,
                           uploadOps>>
    /\ UNCHANGED <<photos, conv, uploadDom, filesPassed>>
    /\ UNCHANGED <<avars, evars, mvars, svars>>

\* DragWake as if the method checked, after the last sleep, that the page
\* took the dropped files, and threw when it had not
DragWakeVerifies ==
    /\ upc = "drag"
    /\ IF dragIdx < 3
       THEN /\ dragIdx' = dragIdx + 1
            /\ uploadOps' = uploadOps \cup {"dispatchDragEvent"}
            /\ UNCHANGED <<upc, methodIdx, methodsTried, methodResult, inputFiles,
                           uresponses, indicator, hideTimers>>
       ELSE \E taken \in BOOLEAN :
               IF taken
               THEN MethodReturns(0)
               ELSE /\ MethodThrows(methodResult)
                    /\ UNCHANGED <<methodIdx, methodsTried, uresponses, indicator,
                                   hideTimers, uploadOps>>
    /\ UNCHANGED <<photos, conv, uploadDom, filesPassed, countRead>>
    /\ UNCHANGED <<avars, evars, mvars, svars>>

(* uploadViaDragDrop: a sleep fires; dragover, then drop, is dispatched, and *)
(* after the last sleep(1000) the method returns                             *)
DragWake ==
    /\ upc = "drag"
    /\ IF dragIdx < 3
       THEN /\ dragIdx' = dragIdx + 1
            /\ uploadOps' = uploadOps \cup {"dispatchDragEvent"}
            /\ UNCHANGED <<upc, methodIdx, methodsTried, methodResult, inputFiles,
                           uresponses, indicator, hideTimers>>
       ELSE MethodReturns(0)
    /\ UNCHANGED <<photos, conv, uploadDom, filesPassed, countRead>>
    /\ UNCHANGED <<avars, evars, mvars, svars>>

(* uploadViaClipboard: navigator.clipboard.write settles; on success the     *)
(* paste instruction is shown and the method returns                         *)
ClipboardSettles(ok) ==
    /\ upc = "clipboardWait"
    /\ IF ok
       THEN MethodReturns(1)
       ELSE /\ MethodThrows(methodResult)
            /\ UNCHANGED <<methodIdx, methodsTried, uresponses, indicator, hideTimers,
                           uploadOps>>
    /\ UNCHANGED <<photos, conv, uploadDom, filesPassed, countRead>>
    /\ UNCHANGED <<avars, evars, mvars, svars>>

(* tryUploadMethods: the catch of the loop; the last method's error is       *)
(* rethrown, any other is logged and the next method is called               *)
MethodCatchWake ==
    /\ upc = "methodCaught"
    /\ IF methodIdx = Len(methods)
       THEN /\ UploadFail("Clipboard upload preparation failed")
            /\ UNCHANGED <<methodIdx, dragIdx, methodsTried, methodResult, inputFiles,
                           uploadOps>>
       ELSE CallMethod(methodIdx + 1, methodResult, filesPassed, uploadOps)
    /\ UNCHANGED <<photos, conv, uploadDom, filesPassed, countRead>>
    /\ UNCHANGED <<avars, evars, mvars, svars>>

(* the host page empties the file input while the upload waits               *)
PageClearsInput ==
    /\ upc = "inputWait"
    /\ inputFiles > 0
    /\ inputFiles' = 0
    /\ UNCHANGED <<upc, photos, conv, uploadDom, filesPassed, methodIdx, dragIdx,
                   methodsTried, methodResult, countRead, uresponses, uploadOps>>
    /\ UNCHANGED <<avars, ivars, evars, mvars, svars>>

(* the host page re-renders: the file input or the drop zone appears or      *)
(* disappears                                                                *)
PageRenderUpload(e) ==
    /\ uploadDom' = [uploadDom EXCEPT ![e] = ~@]
    /\ UNCHANGED <<upc, photos, conv, inputFiles, filesPassed, methodIdx, dragIdx,
                   methodsTried, methodResult, countRead, uresponses, uploadOps>>
    /\ UNCHANGED <<avars, ivars, evars, mvars, svars>>

\* one uploadImages message on a page that keeps re-rendering
NextUpload ==
    \/ \E ps \in PhotoBatches : ReceiveUpload(ps)
    \/ \E p \in 1..MaxPhotos, ok \in BOOLEAN : FetchSettles(p, ok)
    \/ ConversionsSettle
    \/ InputWake
    \/ DragWake
    \/ \E ok \in BOOLEAN : ClipboardSettles(ok)
    \/ MethodCatchWake
    \/ PageClearsInput
    \/ \E e \in {"fileInput", "dropZone"} : PageRenderUpload(e)
    \/ HideTimerFire

SpecUpload == InitUploadPage /\ [][NextUpload]_vars

----------------------------------------------------------------------------
(* Properties of the autofill orchestrator                                  *)

Threw(r) == \E k \in 1..Len(outcome[r]) : outcome[r][k] = "threw"

\* C1: a second autofill request that arrives while a run is in flight is
\* rejected or queued, so the field steps of two runs are never interleaved:
\* no run starts a field step after another run started one since its own
\* previous step.
C1_NoInterleavedRuns == ~interleaved

\* C2: the field steps of a run start in the order title, description,
\* category, brand, ISBN, condition, price, and a step starts only when
\* every earlier step of the run has completed (returned or thrown).
C2_StepsInOrder ==
    \A r \in Runs :
        /\ Len(attempted[r]) <= 7
        /\ attempted[r] = SubSeq(<<"title", "description", "category", "brand",
                                   "isbn", "condition", "price">>,
                                 1, Len(attempted[r]))
        /\ Len(outcome[r]) <= Len(attempted[r])
        /\ Len(attempted[r]) <= Len(outcome[r]) + 1

C2_Witness ==
    \E r \in Runs : pc[r] = "done" /\ Len(attempted[r]) = 7 /\ Len(outcome[r]) = 7

\* C3: a run during whose form-ready wait the title field was never visible
\* attempts no field step and ends with the single response
\* {success: false, error: 'Form not ready within timeout period'}.
C3_NeverReadyFails ==
    \A r \in Runs :
        (pc[r] # "idle" /\ ~titleSeen[r]) =>
            /\ attempted[r] = << >>
            /\ pc[r] \in {"polling", "done"}
            /\ pc[r] = "done" =>
                 responses[r] = <<ErrorResponse("Form not ready within timeout period")>>

C3_Witness == \E r \in Runs : pc[r] = "done" /\ ~titleSeen[r]

\* C4: a run with autoFillTitle enabled whose title step failed (the title
\* element was not found when the step ran) ends Failed: its response has
\* success = false, never success = true.
C4_TitleFailureFailsRun ==
    \A r \in Runs :
        (/\ pc[r] = "done"
         /\ request[r].settings.autoFillTitle
         /\ Len(outcome[r]) >= 1
         /\ outcome[r][1] = "threw")
        => (\A k \in 1..Len(responses[r]) : ~responses[r][k].success)

\* C5: a run that filled the title and whose description step failed because
\* the description field was absent ends with an outcome the caller can tell
\* from full success (PartialSuccess, failedFields = ["description"]): its
\* response differs from the response of a run in which every step succeeded.
C5_PartialSuccessDistinct ==
    \A r \in Runs :
        (/\ pc[r] = "done"
         /\ request[r].settings.autoFillTitle
         /\ request[r].settings.autoFillDescription
         /\ Len(outcome[r]) >= 2
         /\ outcome[r][1] = "returned"
         /\ outcome[r][2] = "threw")
        => responses[r] # <<SuccessResponse>>

\* C6: when a field step of a run throws, every later step of the fixed
\* order is still attempted in that run: a finished run in which some step
\* threw has attempted all seven steps.
C6_FailureDoesNotAbort ==
    \A r \in Runs :
        (pc[r] = "done" /\ Threw(r)) =>
            attempted[r] = <<"title", "description", "category", "brand",
                            "isbn", "condition", "price">>

C6_Witness ==
    \E r \in Runs :
        /\ pc[r] = "done"
        /\ Len(attempted[r]) = 7
        /\ outcome[r][1] = "threw"
        /\ outcome[r][2] = "threw"

\* C7: a field step's failure never reaches the caller; the only error in a
\* response is the form-ready timeout, raised before any step; and a run
\* answers exactly once, when it reaches its terminal state.
C7_OnlyOrchestratorErrorsOnce ==
    \A r \in Runs :
        /\ Len(responses[r]) = (IF pc[r] = "done" THEN 1 ELSE 0)
        /\ \A k \in 1..Len(responses[r]) :
              \/ /\ responses[r][k] = SuccessResponse
                 /\ Len(attempted[r]) = 7
              \/ /\ responses[r][k] = ErrorResponse("Form not ready within timeout period")
                 /\ attempted[r] = << >>

C7_Witness ==
    \E r \in Runs :
        /\ pc[r] = "done"
        /\ Threw(r)
        /\ responses[r] = <<SuccessResponse>>

----------------------------------------------------------------------------
(* Properties of the image uploader                                         *)

ConversionFailed == \E p \in DOMAIN conv : conv[p] = "failed"
ConversionOk == \E p \in DOMAIN conv : conv[p] = "ok"

\* C8: the upload methods are called in the order file input, drag and drop,
\* clipboard; a method is called only after every earlier one has thrown, so
\* none is called after one returned.  When the file input is read back with
\* files in it, the file-input method is the only one called; when it is read
\* back empty, the drag-and-drop method is called next.
C8_StrategyOrder ==
    /\ Len(methodsTried) <= 3
    /\ methodsTried = SubSeq(<<"fileInput", "dragDrop", "clipboard">>,
                             1, Len(methodsTried))
    /\ Len(methodResult) <= Len(methodsTried)
    /\ Len(methodsTried) <= Len(methodResult) + 1
    /\ \A k \in 1..(Len(methodsTried) - 1) : methodResult[k] = "threw"
    /\ countRead > 0 => methodsTried = <<"fileInput">>
    /\ (countRead = 0 /\ ~(upc = "methodCaught" /\ methodIdx = 1)) =>
           (Len(methodsTried) >= 2 /\ methodsTried[2] = "dragDrop")

C8_Witness ==
    /\ upc = "done"
    /\ countRead = 0
    /\ methodsTried = <<"fileInput", "dragDrop">>
    /\ methodResult = <<"threw", "returned">>

\* C9: an upload that completed only through clipboard staging is reported
\* differently from a full automation success: neither the response nor the
\* status text left on the indicator is that of a plain success.
C9_DegradedSuccessDistinct ==
    (/\ upc = "done"
     /\ methodsTried = <<"fileInput", "dragDrop", "clipboard">>
     /\ methodResult = <<"threw", "threw", "returned">>)
    => /\ uresponses # <<SuccessResponse>>
       /\ indicator.text # <<"check", "Images uploaded successfully!">>

\* C10 (as claimed): when the conversion of one photo fails, the photos that
\* did convert are still handed to the upload methods (given a file input).
C10_FailureConfinedToPhoto ==
    (/\ upc = "done"
     /\ ConversionFailed
     /\ ConversionOk
     /\ uploadDom.fileInput)
    => (filesPassed > 0 /\ methodsTried # << >>)

\* C10 (amended): when the conversion of any photo of the batch fails, the
\* whole upload fails with 'Failed to convert image data': no file of the
\* batch is handed to the upload methods and no method is called.
C10_ConversionFailureAbortsBatch ==
    ConversionFailed =>
        /\ upc \in {"converting", "done"}
        /\ filesPassed = 0
        /\ methodsTried = << >>
        /\ upc = "done" =>
             uresponses = <<ErrorResponse("Failed to convert image data")>>

C10_Witness == upc = "done" /\ ConversionFailed /\ ConversionOk

\* the error reasons uploadImages answers with
ConversionError == ErrorResponse("Failed to convert image data")
NoTargetError == ErrorResponse("Photo upload input not found")
AllRejectedError == ErrorResponse("Clipboard upload preparation failed")

\* C11: a failed upload is answered with one of three error reasons, each
\* telling its cause apart from the other two: a conversion failed (and then
\* no upload element of the page was looked up, assigned to or sent an
\* event), or the conversions succeeded and no file input was found (and no
\* method was called), or all three methods were called and all threw.
C11_ThreeErrorReasons ==
    /\ ConversionFailed => uploadOps = {}
    /\ (upc = "done" /\ uresponses # <<SuccessResponse>>) =>
          /\ uresponses \in {<<ConversionError>>, <<NoTargetError>>,
                              <<AllRejectedError>>}
          /\ Cardinality({ConversionError, NoTargetError, AllRejectedError}) = 3
          /\ uresponses = <<ConversionError>> <=> ConversionFailed
          /\ uresponses = <<NoTargetError>> <=>
                (~ConversionFailed /\ methodsTried = << >>
                   /\ uploadOps = {"lookupFileInput"})
          /\ uresponses = <<AllRejectedError>> <=>
                (/\ methodsTried = <<"fileInput", "dragDrop", "clipboard">>
                 /\ methodResult = <<"threw", "threw", "threw">>)

\* a conversion failed while another photo's conversion was still on its
\* way, and the upload has ended
C11_Witness ==
    /\ upc = "done"
    /\ ConversionFailed
    /\ uresponses = <<ConversionError>>
    /\ uploadOps = {}
    /\ Len(photos) = 2

----------------------------------------------------------------------------
(* The field locator: findElement and isElementVisible, applied to a page   *)
(* given as its elements in document order.                                 *)

\* the largest page: its elements that a candidate selector can match
MaxElements == 2

\* two of the price field's selectors, and a selector string the browser
\* rejects (document.querySelector throws a SyntaxError on it)
ValidSelectors == {"input[name=\"price\"]", "input[type=\"number\"]"}
InvalidSelectors == {"input[type="}
CandidateSelectors == ValidSelectors \cup InvalidSelectors

\* what isElementVisible reads of an element: a rendering that passes, and
\* one for each of the five tests that rejects
Shown == [width |-> 120, height |-> 24, display |-> "block",
          visibility |-> "visible", opacity |-> "1"]
Renderings ==
    { Shown,
      [Shown EXCEPT !.width = 0],
      [Shown EXCEPT !.height = 0],
      [Shown EXCEPT !.display = "none"],
      [Shown EXCEPT !.visibility = "hidden"],
      [Shown EXCEPT !.opacity = "0"] }

\* an element: the candidate selectors it matches and how it is rendered
Elements == [matches : SUBSET ValidSelectors, style : Renderings]

Pages == UNION { [1..n -> Elements] : n \in 0..MaxElements }

\* a field's candidate list: selectors in priority order, none twice
SelectorLists ==
    { l \in UNION { [1..n -> CandidateSelectors] :
                       n \in 0..Cardinality(CandidateSelectors) } :
        \A i, j \in DOMAIN l : l[i] = l[j] => i = j }

\* document.querySelector: throws on an invalid selector, else the first
\* element in document order that matches (0 stands for null)
querySelector(page, selector) ==
    IF selector \in InvalidSelectors THEN [threw |-> TRUE, el |-> 0]
    ELSE IF \E i \in DOMAIN page : selector \in page[i].matches
    THEN [threw |-> FALSE,
          el |-> CHOOSE i \in DOMAIN page :
                    /\ selector \in page[i].matches
                    /\ \A j \in DOMAIN page : selector \in page[j].matches => i <= j]
    ELSE [threw |-> FALSE, el |-> 0]

\* isElementVisible as if the opacity test were missing
isElementVisibleIgnoresOpacity(element) ==
    /\ element.style.width > 0
    /\ element.style.height > 0
    /\ element.style.display # "none"
    /\ element.style.visibility # "hidden"

isElementVisible(element) ==
    /\ element.style.width > 0
    /\ element.style.height > 0
    /\ element.style.display # "none"
    /\ element.style.visibility # "hidden"
    /\ element.style.opacity # "0"

\* findElement's loop from the k-th selector on: a throwing query is caught
\* and the loop continues; after the last selector null is returned
RECURSIVE findElementFrom(_, _, _)
findElementFrom(page, selectors, k) ==
    IF k > Len(selectors) THEN [threw |-> FALSE, el |-> 0]
    ELSE LET q == querySelector(page, selectors[k])
         IN  IF q.threw THEN findElementFrom(page, selectors, k + 1)
             ELSE IF q.el # 0 /\ isElementVisible(page[q.el])
             THEN [threw |-> FALSE, el |-> q.el]
             ELSE findElementFrom(page, selectors, k + 1)

\* findElement(selectors) on a page
findElementOn(page, selectors) == findElementFrom(page, selectors, 1)

\* one call of findElement on any page, with any candidate list
InitLocate ==
    /\ visible = Fields
    /\ uploadDom = [fileInput |-> TRUE, dropZone |-> TRUE]
    /\ InitRuns
    /\ InitUploader
    /\ InitListener
    /\ InitStore
    /\ call \in [fn : {"findElement"}, page : Pages, selectors : SelectorLists]
    /\ ret = [state |-> "none"]

LocateCall ==
    /\ call.fn = "findElement"
    /\ ret.state = "none"
    /\ LET res == findElementOn(call.page, call.selectors)
       IN  ret' = [state |-> IF res.threw THEN "threw" ELSE "returned",
                   el |-> res.el]
    /\ UNCHANGED <<call, avars, ivars, uvars, mvars, svars>>

NextLocate == LocateCall

SpecLocate == InitLocate /\ [][NextLocate]_vars

----------------------------------------------------------------------------
(* Properties of the field locator                                          *)

\* an element passes as visible: non-empty box, displayed, not hidden, not
\* fully transparent
Rendered(e) ==
    /\ e.style.width > 0 /\ e.style.height > 0
    /\ e.style.display # "none" /\ e.style.visibility # "hidden"
    /\ e.style.opacity # "0"

\* the first element of the page, in document order, that matches selector
\* (0: none does)
FirstMatch(page, selector) ==
    IF \E i \in DOMAIN page : selector \in page[i].matches
    THEN CHOOSE i \in DOMAIN page :
            /\ selector \in page[i].matches
            /\ \A j \in 1..(i - 1) : selector \notin page[j].matches
    ELSE 0

\* the k-th candidate is valid and the first element it matches is visible
FirstMatchShown(k) ==
    /\ call.selectors[k] \in ValidSelectors
    /\ FirstMatch(call.page, call.selectors[k]) # 0
    /\ Rendered(call.page[FirstMatch(call.page, call.selectors[k])])

\* some candidate matches some visible element of the page
SomeVisibleMatch ==
    \E k \in DOMAIN call.selectors, i \in DOMAIN call.page :
        call.selectors[k] \in call.page[i].matches /\ Rendered(call.page[i])

\* C12 (as claimed): findElement never throws; it returns an element whenever
\* at least one candidate selector matches a visible element of the page, and
\* null when none does; the element returned is visible and is matched by
\* the earliest candidate that matches a visible element.
C12_FindsAnyVisibleMatch ==
    (call.fn = "findElement" /\ ret.state # "none") =>
        /\ ret.state = "returned"
        /\ SomeVisibleMatch <=> ret.el # 0
        /\ ret.el # 0 =>
             /\ Rendered(call.page[ret.el])
             /\ \E k \in DOMAIN call.selectors :
                  /\ call.selectors[k] \in call.page[ret.el].matches
                  /\ \A j \in 1..(k - 1), i \in DOMAIN call.page :
                        ~(call.selectors[j] \in call.page[i].matches
                            /\ Rendered(call.page[i]))

\* C12 (amended): findElement never throws, an invalid selector included.
\* Each candidate stands for the first element it matches in document
\* order: findElement returns that element for the earliest candidate whose
\* first match is visible, and null when no candidate's first match is
\* visible -- also when a later element matching the same selector is.
C12_FindsFirstMatchIfVisible ==
    (call.fn = "findElement" /\ ret.state # "none") =>
        /\ ret.state = "returned"
        /\ (\E k \in DOMAIN call.selectors : FirstMatchShown(k)) <=> ret.el # 0
        /\ ret.el # 0 =>
             \E k \in DOMAIN call.selectors :
                /\ FirstMatchShown(k)
                /\ ret.el = FirstMatch(call.page, call.selectors[k])
                /\ \A j \in 1..(k - 1) : ~FirstMatchShown(j)

\* an invalid selector comes first; the next candidate matches two elements,
\* a hidden one before a visible one, and the call has returned null
C12_Witness ==
    /\ call.fn = "findElement"
    /\ ret.state = "returned"
    /\ ret.el = 0
    /\ Len(call.selectors) = 2
    /\ call.selectors[1] \in InvalidSelectors
    /\ Len(call.page) = 2
    /\ call.selectors[2] \in call.page[1].matches
    /\ call.selectors[2] \in call.page[2].matches
    /\ ~Rendered(call.page[1])
    /\ Rendered(call.page[2])

----------------------------------------------------------------------------
(* The option resolver on a native select: setSelectValue, as called by     *)
(* setCategory and setCondition.  A string is the tuple of its characters,  *)
(* so that toLowerCase and includes are computed as JavaScript does.        *)

UpperCase == <<"A", "B", "C", "D", "E", "F", "G", "H", "I", "J", "K", "L", "M", "N", "O", "P", "Q", "R", "S", "T", "U", "V", "W", "X", "Y", "Z">>
LowerCase == <<"a", "b", "c", "d", "e", "f", "g", "h", "i", "j", "k", "l", "m", "n", "o", "p", "q", "r", "s", "t", "u", "v", "w", "x", "y", "z">>

\* String.prototype.toLowerCase (ASCII letters)
toLowerCase(str) ==
    [i \in DOMAIN str |->
        IF \E k \in DOMAIN UpperCase : UpperCase[k] = str[i]
        THEN LowerCase[CHOOSE k \in DOMAIN UpperCase : UpperCase[k] = str[i]]
        ELSE str[i]]

\* String.prototype.includes: needle occurs in str as a substring
includes(str, needle) ==
    \E i \in 1..(Len(str) - Len(needle) + 1) :
        SubSeq(str, i, i + Len(needle) - 1) = needle

sBrandNewWithTags == <<"B", "r", "a", "n", "d", " ", "n", "e", "w", " ", "w", "i", "t", "h", " ", "t", "a", "g", "s">>
sLikeNew == <<"L", "i", "k", "e", " ", "n", "e", "w">>
sNew == <<"N", "e", "w">>
sVeryGood == <<"V", "e", "r", "y", " ", "g", "o", "o", "d">>
sExcellent == <<"E", "x", "c", "e", "l", "l", "e", "n", "t">>
sNearlyNew == <<"N", "e", "a", "r", "l", "y", " ", "n", "e", "w">>
sGood == <<"G", "o", "o", "d">>
sFine == <<"F", "i", "n", "e">>
sSatisfactory == <<"S", "a", "t", "i", "s", "f", "a", "c", "t", "o", "r", "y">>
sFair == <<"F", "a", "i", "r">>
sAcceptable == <<"A", "c", "c", "e", "p", "t", "a", "b", "l", "e">>
sPoor == <<"P", "o", "o", "r">>
sDamaged == <<"D", "a", "m", "a", "g", "e", "d">>
sProfessionalTechnical == <<"P", "r", "o", "f", "e", "s", "s", "i", "o", "n", "a", "l", " ", "&", " ", "t", "e", "c", "h", "n", "i", "c", "a", "l">>
sBooks == <<"B", "o", "o", "k", "s">>
sLiterature == <<"L", "i", "t", "e", "r", "a", "t", "u", "r", "e">>

\* conditionMapping, and the fallback of setCondition for any other condition
conditionOptions(condition) ==
    CASE condition = "like-new"  -> <<sBrandNewWithTags, sLikeNew, sNew>>
      [] condition = "very-good" -> <<sVeryGood, sExcellent, sNearlyNew>>
      [] condition = "good"      -> <<sGood, sFine>>
      [] condition = "fair"      -> <<sSatisfactory, sFair, sAcceptable>>
      [] condition = "poor"      -> <<sPoor, sDamaged>>
      [] OTHER                   -> <<sGood>>

\* the conditions a book can carry, and one the mapping does not know
Conditions == {"like-new", "very-good", "good", "fair", "poor", "mint"}

\* setCategory's preferred values
categoryOptions == <<sProfessionalTechnical, sBooks, sLiterature>>

\* the preferred-value lists setSelectValue and clickDropdownOption are
\* called with, and a two-synonym list for a call of its own
PreferredLists ==
    {conditionOptions(c) : c \in Conditions}
        \cup {categoryOptions, <<sVeryGood, sExcellent>>}

\* the labels a marketplace's condition widget shows
sBrandNew == <<"B", "r", "a", "n", "d", " ", "n", "e", "w">>
sBonEtat == <<"B", "o", "n", " ", "e", "t", "a", "t">>

\* the <option>s a page's select can be made of: text and value attribute
\* (a translated label keeps the English value)
OptionPool ==
    { [text |-> sPoor,         value |-> <<"1">>],
      [text |-> sGood,         value |-> <<"2">>],
      [text |-> sVeryGood,     value |-> <<"3">>],
      [text |-> sBrandNew,     value |-> <<"4">>],
      [text |-> sExcellent,    value |-> <<"5">>],
      [text |-> sBonEtat,      value |-> toLowerCase(sGood)] }

\* the most options of a select
MaxOptions == 4

\* element.options: distinct options of the pool, in DOM order
OptionLists ==
    { l \in UNION { [1..n -> OptionPool] : n \in 0..MaxOptions } :
        \A i, j \in DOMAIN l : l[i] = l[j] => i = j }

\* the predicate of find in setSelectValue
optionMatches(opt, value) ==
    \/ includes(toLowerCase(opt.text), toLowerCase(value))
    \/ includes(toLowerCase(opt.value), toLowerCase(value))

\* Array.from(element.options).find(...): the index of the first option in
\* DOM order that satisfies the predicate (0 stands for undefined)
findOption(options, value) ==
    IF \E i \in DOMAIN options : optionMatches(options[i], value)
    THEN CHOOSE i \in DOMAIN options :
            /\ optionMatches(options[i], value)
            /\ \A j \in 1..(i - 1) : ~optionMatches(options[j], value)
    ELSE 0

\* element.value = v: the first option with that value becomes selected
\* (none when no option has it)
assignValue(options, v) ==
    IF \E i \in DOMAIN options : options[i].value = v
    THEN CHOOSE i \in DOMAIN options :
            /\ options[i].value = v
            /\ \A j \in 1..(i - 1) : options[j].value # v
    ELSE 0

\* setSelectValueFrom as if the options were the outer loop: the first
\* option in DOM order that matches any preferred value is taken
setSelectValueByPosition(options, selected, preferredValues, k) ==
    IF \E i \in DOMAIN options, p \in DOMAIN preferredValues :
          optionMatches(options[i], preferredValues[p])
    THEN LET o == CHOOSE i \in DOMAIN options :
                    /\ \E p \in DOMAIN preferredValues :
                          optionMatches(options[i], preferredValues[p])
                    /\ \A j \in 1..(i - 1), p \in DOMAIN preferredValues :
                          ~optionMatches(options[j], preferredValues[p])
         IN  [selected |-> assignValue(options, options[o].value),
              dispatched |-> <<Dispatched("change", TRUE)>>,
              log |-> << >>]
    ELSE [selected |-> selected, dispatched |-> << >>,
          log |-> <<"No matching option found">>]

\* setSelectValue's loop from the k-th preferred value on: what is selected
\* afterwards, the events dispatched and the lines logged
RECURSIVE setSelectValueFrom(_, _, _, _)
setSelectValueFrom(options, selected, preferredValues, k) ==
    IF k > Len(preferredValues)
    THEN [selected |-> selected, dispatched |-> << >>,
          log |-> <<"No matching option found">>]
    ELSE LET o == findOption(options, preferredValues[k])
         IN  IF o # 0
             THEN [selected |-> assignValue(options, options[o].value),
                   dispatched |-> <<Dispatched("change", TRUE)>>,
                   log |-> << >>]
             ELSE setSelectValueFrom(options, selected, preferredValues, k + 1)

\* one call on any select: its options, the option selected before the call
\* (the first, as a select shows by default, or the last; 0: none, an empty
\* select) and the preferred values
InitSelect ==
    /\ visible = Fields
    /\ uploadDom = [fileInput |-> TRUE, dropZone |-> TRUE]
    /\ InitRuns
    /\ InitUploader
    /\ InitListener
    /\ InitStore
    /\ call \in { c \in [fn : {"setSelectValue"}, options : OptionLists,
                         selected : 0..MaxOptions,
                         preferredValues : PreferredLists] :
                    c.selected \in {IF c.options = << >> THEN 0 ELSE 1,
                                    Len(c.options)} }
    /\ ret = [state |-> "none"]

(* setCategory / setCondition on a SELECT element: await setSelectValue(...) *)
(* resolves with undefined, then '... set successfully' is logged           *)
SelectCall ==
    /\ call.fn = "setSelectValue"
    /\ ret.state = "none"
    /\ LET res == setSelectValueFrom(call.options, call.selected,
                                     call.preferredValues, 1)
       IN  ret' = [state |-> "returned",
                   returned |-> "undefined",
                   selected |-> res.selected,
                   dispatched |-> res.dispatched,
                   log |-> Append(res.log, "set successfully")]
    /\ UNCHANGED <<call, avars, ivars, uvars, mvars, svars>>

NextSelect == SelectCall

SpecSelect == InitSelect /\ [][NextSelect]_vars

----------------------------------------------------------------------------
(* Properties of the option resolver on a native select                     *)

\* the texts of the options of the call, in DOM order
OptionTexts == [i \in DOMAIN call.options |-> call.options[i].text]

\* preferred value p matches option i: the option's text or value contains
\* it, letter case ignored
Matches(p, i) == optionMatches(call.options[i], call.preferredValues[p])

SomeOptionMatches ==
    \E p \in DOMAIN call.preferredValues, i \in DOMAIN call.options : Matches(p, i)

\* C13: on a native select the rank of the synonym decides before the
\* position of the option: the option selected is the first in DOM order
\* among those matching the highest-ranked synonym that matches any option,
\* and one bubbling change event is dispatched.  With the synonyms
\* "Very good", "Excellent" and the options "Poor", "Good", "Very good",
\* "Brand new", "Very good" is selected.
C13_SynonymRankFirst ==
    (call.fn = "setSelectValue" /\ ret.state = "returned") =>
        /\ SomeOptionMatches =>
             \E p \in DOMAIN call.preferredValues :
                /\ ret.selected \in DOMAIN call.options
                /\ Matches(p, ret.selected)
                /\ \A q \in 1..(p - 1), i \in DOMAIN call.options : ~Matches(q, i)
                /\ \A j \in 1..(ret.selected - 1) : ~Matches(p, j)
                /\ ret.dispatched = <<[op |-> "change", bubbles |-> TRUE, live |-> TRUE]>>
        /\ (/\ call.preferredValues = <<sVeryGood, sExcellent>>
            /\ OptionTexts = <<sPoor, sGood, sVeryGood, sBrandNew>>)
           => (ret.selected = 3 /\ call.options[3].text = sVeryGood)

\* the example of C13 has been run
C13_Witness ==
    /\ call.fn = "setSelectValue"
    /\ ret.state = "returned"
    /\ call.preferredValues = <<sVeryGood, sExcellent>>
    /\ OptionTexts = <<sPoor, sGood, sVeryGood, sBrandNew>>
    /\ ret.selected = 3

\* C14: a book in condition 'good', on a native select that has an option
\* labelled "Good", ends with that option selected, wherever the option
\* stands among the others ("Very good" before it included).
C14_GoodSelectsGood ==
    (/\ call.fn = "setSelectValue"
     /\ ret.state = "returned"
     /\ call.preferredValues = conditionOptions("good")
     /\ \E i \in DOMAIN call.options : call.options[i].text = sGood)
    => /\ ret.selected \in DOMAIN call.options
       /\ call.options[ret.selected].text = sGood

\* C15: when no option of a native select matches any synonym, the call
\* returns false to its caller, the selection is the one before the call and
\* no change event has been dispatched.
C15_NoMatchReturnsFalse ==
    (call.fn = "setSelectValue" /\ ret.state = "returned" /\ ~SomeOptionMatches)
    => /\ ret.returned = "false"
       /\ ret.selected = call.selected
       /\ ret.dispatched = << >>

----------------------------------------------------------------------------
(* The option resolver on a custom dropdown: clickDropdownOption, as called *)
(* by setCategory and setCondition.                                         *)

\* clickDropdownOption: the optionSelectors array, in the order it is iterated
optionSelectors ==
    << "[role=\"option\"]", ".dropdown-option", "[data-testid*=\"option\"]",
       "li[data-value]", ".select-option" >>

\* how a page marks an option up: the option selectors the element matches
OptionMarkups ==
    { {"[role=\"option\"]"}, {".dropdown-option"},
      {"[role=\"option\"]", "li[data-value]"} }

\* the option-like elements an opened dropdown can show: textContent and markup
PopupElements ==
    [text : {sPoor, sGood, sVeryGood, sBrandNew, sExcellent, sBooks},
     matches : OptionMarkups]

\* the most option-like elements of an opened dropdown
MaxPopupOptions == 2

\* the option-like elements in document order
Popups == UNION { [1..n -> PopupElements] : n \in 0..MaxPopupOptions }

\* the test of the innermost loop: the option's lower-cased textContent
\* includes the lower-cased preferred value
optionTextMatches(option, preferredValue) ==
    includes(toLowerCase(option.text), toLowerCase(preferredValue))

\* the innermost loop over document.querySelectorAll(selector): the first
\* element in document order that matches the selector and the value (0: none)
firstOptionWith(popup, selector, preferredValue) ==
    LET hits == { i \in DOMAIN popup :
                    /\ selector \in popup[i].matches
                    /\ optionTextMatches(popup[i], preferredValue) }
    IN  IF hits = {} THEN 0
        ELSE CHOOSE i \in hits : \A j \in hits : i <= j

\* the three nested loops from selector s and preferred value p on: the
\* option that is clicked (0: the loops end without a click)
RECURSIVE pickOption(_, _, _, _)
pickOption(popup, preferredValues, s, p) ==
    IF s > Len(optionSelectors) THEN 0
    ELSE IF p > Len(preferredValues) THEN pickOption(popup, preferredValues, s + 1, 1)
    ELSE LET o == firstOptionWith(popup, optionSelectors[s], preferredValues[p])
         IN  IF o # 0 THEN o
             ELSE pickOption(popup, preferredValues, s, p + 1)

\* a click made by the engine
Click(target, index) == [target |-> target, index |-> index]

\* one call on any dropdown: the option-like elements it shows once opened,
\* and the preferred values
InitDropdown ==
    /\ visible = Fields
    /\ uploadDom = [fileInput |-> TRUE, dropZone |-> TRUE]
    /\ InitRuns
    /\ InitUploader
    /\ InitListener
    /\ InitStore
    /\ call \in [fn : {"clickDropdownOption"}, popup : Popups,
                 preferredValues : PreferredLists]
    /\ ret = [state |-> "none"]

(* clickDropdownOption: element.click(); await this.sleep(500)               *)
DropdownOpen ==
    /\ call.fn = "clickDropdownOption"
    /\ ret.state = "none"
    /\ ret' = [state |-> "opening", returned |-> "pending",
               clicks |-> <<Click("trigger", 0)>>, log |-> << >>]
    /\ UNCHANGED <<call, avars, ivars, uvars, mvars, svars>>

(* the sleep(500) fires: the loops run; the option found is clicked and      *)
(* sleep(200) awaited, or the body is clicked, the miss is logged, the call  *)
(* resolves with undefined and the caller logs '... set successfully'        *)
DropdownChoose ==
    /\ ret.state = "opening"
    /\ LET o == pickOption(call.popup, call.preferredValues, 1, 1)
       IN  ret' = IF o # 0
                  THEN [ret EXCEPT !.state = "closing",
                                   !.clicks = Append(@, Click("option", o))]
                  ELSE [ret EXCEPT !.state = "returned",
                                   !.returned = "undefined",
                                   !.clicks = Append(@, Click("body", 0)),
                                   !.log = <<"No matching dropdown option found",
                                             "set successfully">>]
    /\ UNCHANGED <<call, avars, ivars, uvars, mvars, svars>>

(* the sleep(200) fires: the call resolves with undefined and the caller     *)
(* logs '... set successfully'                                               *)
DropdownClosed ==
    /\ ret.state = "closing"
    /\ ret' = [ret EXCEPT !.state = "returned", !.returned = "undefined",
                          !.log = Append(@, "set successfully")]
    /\ UNCHANGED <<call, avars, ivars, uvars, mvars, svars>>

NextDropdown ==
    \/ DropdownOpen
    \/ DropdownChoose
    \/ DropdownClosed

SpecDropdown == InitDropdown /\ [][NextDropdown]_vars

----------------------------------------------------------------------------
(* Properties of the option resolver on a custom dropdown                   *)

\* preferred value p occurs in the text of option-like element i
PopupMatches(p, i) == optionTextMatches(call.popup[i], call.preferredValues[p])

SomePopupMatch ==
    \E p \in DOMAIN call.preferredValues, i \in DOMAIN call.popup : PopupMatches(p, i)

\* the option clicks made so far
OptionClicks == SelectSeq(ret.clicks, LAMBDA c : c.target = "option")

\* C16: when no option-like element matches after the dropdown was opened,
\* the engine clicks elsewhere to close it, clicks no option, and reports
\* the field as failed: the step is not recorded as set successfully.
C16_NoMatchClosesAndFails ==
    (/\ call.fn = "clickDropdownOption"
     /\ ret.state = "returned"
     /\ ~SomePopupMatch)
    => /\ ret.clicks = <<Click("trigger", 0), Click("body", 0)>>
       /\ \A k \in DOMAIN ret.log : ret.log[k] # "set successfully"

\* C17: on a custom dropdown the option clicked is chosen by synonym rank
\* over all option-like elements, whichever option selector finds them: when
\* some element matches, exactly one option is clicked and its text contains
\* the highest-ranked synonym that matches any option-like element.
C17_SynonymRankOverAllOptions ==
    (/\ call.fn = "clickDropdownOption"
     /\ ret.state \in {"closing", "returned"}
     /\ SomePopupMatch)
    => /\ Len(OptionClicks) = 1
       /\ \E p \in DOMAIN call.preferredValues :
             /\ PopupMatches(p, OptionClicks[1].index)
             /\ \A q \in 1..(p - 1), i \in DOMAIN call.popup : ~PopupMatches(q, i)

----------------------------------------------------------------------------
(* Properties of the value injector                                         *)

\* what the step in progress of run r has done to its element, by kind
Ops(r) == [k \in DOMAIN domLog[r] |-> domLog[r][k].op]

\* C18: a value injection assigns the value before it dispatches any event,
\* and then dispatches input, change and blur, once each and in that order,
\* every one of them bubbling.
C18_AssignThenEventsInOrder ==
    \A r \in Runs :
        /\ Ops(r) = SubSeq(<<"value", "input", "change", "blur">>, 1, Len(Ops(r)))
        /\ \A k \in 2..Len(domLog[r]) : domLog[r][k].bubbles
        /\ pc[r] = "events" => Len(domLog[r]) = evIdx[r] + 1
        /\ (domLog[r] # << >> /\ pc[r] # "events") =>
              Ops(r) = <<"value", "input", "change", "blur">>

\* the price field, the last step, has been filled and the run has ended
C18_Witness ==
    /\ pc["r1"] = "done"
    /\ attempted["r1"] = steps
    /\ Ops("r1") = <<"value", "input", "change", "blur">>

\* C19: after every suspension inside an interaction the engine locates the
\* element again or checks that it is still present and visible, so no
\* event is dispatched to an element the page removed or hid during the wait.
C19_NoEventOnGoneElement ==
    \A r \in Runs : \A k \in DOMAIN domLog[r] : domLog[r][k].live

----------------------------------------------------------------------------
(* Properties of the status indicator during one autofill run               *)

\* the indicator as set up, before any request
IndicatorAtRest ==
    [display |-> "none", text |-> <<"Book Lister Ready (Images Supported)">>,
     color |-> "#0ea5e9"]

\* the indicator shows: processing, success, or the error of the message
ShowsProcessing ==
    /\ indicator.display = "flex"
    /\ indicator.text = <<"hourglass", "Filling form...">>
    /\ indicator.color = "#f59e0b"
ShowsSuccess ==
    /\ indicator.text = <<"check", "Form filled successfully!">>
    /\ indicator.color = "#10b981"
ShowsError(msg) ==
    /\ indicator.text = <<"cross", "Autofill failed: ", msg>>
    /\ indicator.color = "#ef4444"

\* C20: the indicator follows the run.  It shows processing from the moment
\* the request is taken up -- before the wait for the form and before any
\* field is written -- until the run ends; it takes a terminal state only
\* when the run has ended, after the last step or on failure; a run paints
\* exactly one terminal state, and that state is success when the run
\* answered success and the run's error when it answered an error.
C20_IndicatorMirrorsRun ==
    /\ pc["r1"] = "idle" => (indicator = IndicatorAtRest /\ hideTimers = 0)
    /\ pc["r1"] \notin {"idle", "done"} =>
          (ShowsProcessing /\ hideTimers = 0 /\ responses["r1"] = << >>)
    /\ pc["r1"] = "done" =>
          /\ Len(responses["r1"]) = 1
          /\ IF responses["r1"][1].success
             THEN ShowsSuccess /\ attempted["r1"] = steps
             ELSE ShowsError(responses["r1"][1].error)
          /\ hideTimers \in {0, 1}
          /\ indicator.display = IF hideTimers = 1 THEN "flex" ELSE "none"

\* the form never became ready: the run has failed and the indicator shows
\* its error, the hide timer still pending
C20_Witness ==
    /\ pc["r1"] = "done"
    /\ responses["r1"] = <<ErrorResponse("Form not ready within timeout period")>>
    /\ ShowsError("Form not ready within timeout period")
    /\ indicator.display = "flex"
    /\ hideTimers = 1

----------------------------------------------------------------------------
(* Properties of the status indicator across operations                     *)

\* C21: the indicator belongs to the operation in flight: while a run is in
\* flight the indicator is visible and shows processing, whatever an earlier
\* run's hide timer or another run does.
C21_IndicatorOwnedByRunInFlight ==
    (\E r \in Runs : pc[r] \notin {"idle", "done"}) =>
        /\ indicator.display = "flex"
        /\ indicator.text = <<"hourglass", "Filling form...">>

----------------------------------------------------------------------------
(* Listener registration and message delivery: setupAutofiller,             *)
(* observePageChanges, handleMessage.  The page is a single-page            *)
(* application: its URL changes by pushState and popstate without a reload. *)

\* the order in which the registered listeners are invoked for a message;
\* the k-th listener's autofill run is the k-th run
RunOrder == <<"r1", "r2">>

\* no further listener is modelled than there are runs to serve them
ListenerCap == Cardinality(Runs)

\* addExtensionIndicator: the element is removed and created again
FreshIndicator ==
    [display |-> "none", text |-> <<"Book Lister Ready (Images Supported)">>,
     color |-> "#0ea5e9"]

\* n more setup timers, as far as they are modelled
Scheduled(n) == IF setupTimers + n < ListenerCap THEN setupTimers + n ELSE ListenerCap

(* history.pushState / replaceState by the page: the URL changes, no event   *)
PushState(u) ==
    /\ u # url
    /\ url' = u
    /\ UNCHANGED <<listeners, observers, setupTimers, showTimers, inbox, answers>>
    /\ UNCHANGED <<avars, ivars, uvars, evars, svars>>

(* back / forward: the URL changes and every popstate listener added by      *)
(* observePageChanges sets its 500 ms timer                                  *)
PopState(u) ==
    /\ u # url
    /\ url' = u
    /\ setupTimers' = Scheduled(Len(observers))
    /\ UNCHANGED <<listeners, observers, showTimers, inbox, answers>>
    /\ UNCHANGED <<avars, ivars, uvars, evars, svars>>

(* the page mutates its DOM: every MutationObserver of observePageChanges    *)
(* that sees a new href records it and, on the listing page, sets its        *)
(* 1000 ms timer                                                             *)
DomMutation ==
    /\ \E i \in DOMAIN observers : observers[i] # url
    /\ observers' = [i \in DOMAIN observers |-> url]
    /\ setupTimers' =
          IF url = "listing"
          THEN Scheduled(Cardinality({i \in DOMAIN observers : observers[i] # url}))
          ELSE setupTimers
    /\ UNCHANGED <<listeners, showTimers, url, inbox, answers>>
    /\ UNCHANGED <<avars, ivars, uvars, evars, svars>>

(* a setup timer fires: setupAutofiller returns at once off the listing      *)
(* page; on it, it adds a message listener, replaces the indicator element   *)
(* and calls observePageChanges                                              *)
SetupTimerFire ==
    /\ setupTimers > 0
    /\ url = "listing" => listeners < ListenerCap
    /\ setupTimers' = setupTimers - 1
    /\ IF url = "listing"
       THEN /\ listeners' = listeners + 1
            /\ observers' = Append(observers, url)
            /\ indicator' = FreshIndicator
            /\ showTimers' = showTimers + 1
       ELSE UNCHANGED <<listeners, observers, indicator, showTimers>>
    /\ UNCHANGED <<hideTimers, url, inbox, answers>>
    /\ UNCHANGED <<avars, uvars, evars, svars>>

(* addExtensionIndicator: its 1000 ms timer fires: the indicator is shown    *)
(* and the 3000 ms timer that hides it is set                                *)
ShowTimerFire ==
    /\ showTimers > 0
    /\ showTimers' = showTimers - 1
    /\ indicator' = [indicator EXCEPT !.display = "flex"]
    /\ hideTimers' = hideTimers + 1
    /\ UNCHANGED <<listeners, observers, setupTimers, url, inbox, answers>>
    /\ UNCHANGED <<avars, uvars, evars, svars>>

\* the runs that serve a message: one per registered listener
Handlers == {RunOrder[k] : k \in 1..listeners}

(* a 'ping' or an unknown message is delivered: every registered listener    *)
(* runs handleMessage, which calls sendResponse before it returns            *)
DeliverSync(action) ==
    /\ inbox = NoMessage
    /\ inbox' = [action |-> action]
    /\ answers' = [k \in 1..listeners |->
                     IF action = "ping" THEN [ready |-> TRUE]
                     ELSE ErrorResponse("Unknown action")]
    /\ UNCHANGED <<listeners, observers, setupTimers, showTimers, url>>
    /\ UNCHANGED <<avars, ivars, uvars, evars, svars>>

(* an 'autofill' message is delivered: every registered listener runs        *)
(* handleMessage, which starts autofillForm up to its first suspension       *)
DeliverAutofill(s, b) ==
    /\ inbox = NoMessage
    /\ \A r \in Handlers : pc[r] = "idle"
    /\ inbox' = [action |-> "autofill"]
    /\ request' = [r \in Runs |->
                     IF r \in Handlers
                     THEN [action |-> "autofill", settings |-> s, book |-> b]
                     ELSE request[r]]
    /\ indicator' = showLoadingMessage("Filling form...")
    /\ elapsed' = [r \in Runs |-> IF r \in Handlers THEN 0 ELSE elapsed[r]]
    /\ titleSeen' = [r \in Runs |->
                       IF r \in Handlers THEN findElement("title") ELSE titleSeen[r]]
    /\ pc' = [r \in Runs |->
                IF r \in Handlers
                THEN IF findElement("title") THEN "ready" ELSE "polling"
                ELSE pc[r]]
    /\ UNCHANGED <<visible, stepIdx, evIdx, attempted, outcome, responses,
                   hideTimers, lastWriter, interleaved, domLog>>
    /\ UNCHANGED <<listeners, observers, setupTimers, showTimers, url, answers>>
    /\ UNCHANGED <<uvars, evars, svars>>

\* the page on which the listeners are studied: every field, every field
\* but the description, or none
InitListeners ==
    /\ visible \in {Fields, Fields \ {"description"}, {}}
    /\ uploadDom = [fileInput |-> TRUE, dropZone |-> TRUE]
    /\ InitRuns
    /\ InitUploader
    /\ InitListener
    /\ InitStore
    /\ NoEngineCall

NextListeners ==
    \/ \E u \in {"listing", "other"} : PushState(u)
    \/ \E u \in {"listing", "other"} : PopState(u)
    \/ DomMutation
    \/ SetupTimerFire
    \/ ShowTimerFire
    \/ \E action \in {"ping", "unknown"} : DeliverSync(action)
    \/ DeliverAutofill(FullSettings, FullBook)
    \/ \E r \in Runs : RunStep(r)
    \/ HideTimerFire

SpecListeners == InitListeners /\ [][NextListeners]_vars

----------------------------------------------------------------------------
(* Properties of listener registration and message delivery                 *)

\* how often sendResponse has been invoked for the message delivered
Invocations == Len(answers) + Len(responses["r1"]) + Len(responses["r2"])

\* the message delivered has been handled to its end by every listener
Handled ==
    /\ inbox # NoMessage
    /\ \A r \in Runs : pc[r] \in {"idle", "done"}
    /\ inbox.action = "autofill" => \E r \in Runs : pc[r] = "done"

\* C22: a message is a one-shot request/response pair: once it has been
\* handled, the response callback has been invoked exactly once for it.
C22_OneResponsePerMessage == Handled => Invocations = 1

\* C25: whatever navigations, popstate events and DOM mutations happen,
\* exactly one message listener of the autofiller is registered, so that
\* one 'autofill' message starts one run and no more.
C25_SingleListener ==
    /\ listeners = 1
    /\ Cardinality({r \in Runs : pc[r] # "idle"}) <= 1

----------------------------------------------------------------------------
(* An autofill run and an image upload in flight together, on a page whose  *)
(* form stays as it is while its upload elements come and go.               *)

InitBoth ==
    /\ visible \in {Fields, Fields \ {"description"}, {}}
    /\ uploadDom \in [fileInput : BOOLEAN, dropZone : BOOLEAN]
    /\ InitRuns
    /\ InitUploader
    /\ InitListener
    /\ InitStore
    /\ NoEngineCall

NextBoth ==
    \/ ReceiveAutofill("r1", FullSettings, FullBook)
    \/ RunStep("r1")
    \/ \E ps \in PhotoBatches : ReceiveUpload(ps)
    \/ \E p \in 1..MaxPhotos, ok \in BOOLEAN : FetchSettles(p, ok)
    \/ ConversionsSettle
    \/ InputWake
    \/ DragWake
    \/ \E ok \in BOOLEAN : ClipboardSettles(ok)
    \/ MethodCatchWake
    \/ PageClearsInput
    \/ \E e \in {"fileInput", "dropZone"} : PageRenderUpload(e)
    \/ HideTimerFire

SpecBoth == InitBoth /\ [][NextBoth]_vars

\* what step k of a full request does on the page as it is, upload or not:
\* a required step throws when its field is missing, any other returns
ExpectedOutcome(k) ==
    IF steps[k] \in {"title", "description"} /\ steps[k] \notin visible
    THEN "threw" ELSE "returned"

\* the upload has failed for want of a target or with every method rejected
UploadFailed ==
    /\ upc = "done"
    /\ uresponses \in {<<NoTargetError>>, <<AllRejectedError>>}

\* C23: an upload that fails while an autofill run is in flight leaves the
\* run as it would be without any upload: the run goes through all its
\* steps, each with the outcome the page alone decides, and ends with the
\* response the page alone decides (success when the title field is there,
\* the form-ready timeout when it is not).
C23_UploadFailureLeavesRun ==
    /\ attempted["r1"] = SubSeq(steps, 1, Len(attempted["r1"]))
    /\ \A k \in DOMAIN outcome["r1"] : outcome["r1"][k] = ExpectedOutcome(k)
    /\ pc["r1"] # "done" => responses["r1"] = << >>
    /\ pc["r1"] = "done" =>
          IF "title" \in visible
          THEN /\ responses["r1"] = <<SuccessResponse>>
               /\ attempted["r1"] = steps
               /\ Len(outcome["r1"]) = Len(steps)
          ELSE /\ responses["r1"] = <<ErrorResponse("Form not ready within timeout period")>>
               /\ attempted["r1"] = << >>

\* the upload failed with every method rejected while the run was between
\* two steps (the indicator shows the upload's error over the run's
\* processing state), and the run is still going on
C23_Witness ==
    /\ pc["r1"] = "gap"
    /\ stepIdx["r1"] = 3
    /\ UploadFailed
    /\ uresponses = <<AllRejectedError>>
    /\ indicator.text = <<"cross", "Image upload failed: ",
                          "Clipboard upload preparation failed">>


----------------------------------------------------------------------------
(* The form-ready wait                                                      *)

TimeoutResponse == ErrorResponse("Form not ready within timeout period")

\* C24: waitForFormReady is a bounded poll. The first poll runs when the
\* wait starts; every later poll comes at least PollInterval after the one
\* before and strictly inside maxWaitTime. A poll that finds the title field
\* ends the wait at once; a poll that does not leaves the run waiting; a
\* timer that fires at or past maxWaitTime ends the run with the timeout
\* error as its single response and no field step attempted. Time only
\* grows during a wait, so a wait has at most maxWaitTime / PollInterval
\* polls and is never started again.
C24_BoundedPoll ==
    [][\A r \in Runs :
          /\ (pc[r] = "idle" /\ pc'[r] # "idle") =>
                /\ elapsed'[r] = 0
                /\ pc'[r] = IF findElement("title") THEN "ready" ELSE "polling"
          /\ (pc[r] = "polling" /\ (pc'[r] # "polling" \/ elapsed'[r] # elapsed[r])) =>
                \/ /\ pc'[r] = "ready"
                   /\ findElement("title")
                   /\ responses'[r] = << >>
                \/ /\ pc'[r] = "polling"
                   /\ ~findElement("title")
                   /\ elapsed'[r] >= elapsed[r] + PollInterval
                   /\ elapsed'[r] < maxWaitTime
                \/ /\ pc'[r] = "done"
                   /\ elapsed'[r] >= maxWaitTime
                   /\ attempted'[r] = << >>
                   /\ responses'[r] = <<TimeoutResponse>>
          /\ pc[r] = "polling" => elapsed[r] < maxWaitTime
      ]_vars

C24_Witness ==
    \E r \in Runs :
        /\ pc[r] = "done"
        /\ elapsed[r] = maxWaitTime
        /\ responses[r] = <<TimeoutResponse>>


----------------------------------------------------------------------------
(* Termination of a run                                                     *)

\* A run is suspended only on setTimeout timers (sleep) and the browser
\* fires every pending timer: the segment that a pending timer resumes
\* stays enabled until it is taken, so weak fairness is what the event loop
\* provides. Nothing is assumed about the page's re-renders.
SpecLive == Init /\ [][Next]_vars /\ WF_vars(RunStep("r1"))

\* C26: under fair firing of timers every autofill message that was
\* delivered is eventually answered: the run reaches its terminal state
\* with exactly one response, whatever the page renders meanwhile.
C26_EveryRunAnswered ==
    (pc["r1"] # "idle") ~> (pc["r1"] = "done" /\ Len(responses["r1"]) = 1)

\* the run went through all seven steps and was answered on a page that
\* has lost every field since the wait ended
C26_Witness ==
    /\ pc["r1"] = "done"
    /\ Len(responses["r1"]) = 1
    /\ Len(attempted["r1"]) = 7
    /\ visible = {}


----------------------------------------------------------------------------
(* The upload strategies                                                    *)

\* what the strategies do to the page's upload elements
StrategyOps == {"assignFiles", "dispatchInputEvents", "lookupDropZone",
                "dispatchDragEvent"}

\* C27: no upload strategy is attempted unless the file input was found
\* first. The first strategy starts only in the step that looks the file
\* input up and finds it; when that lookup finds none, the upload ends in
\* the same step with 'Photo upload input not found', no strategy tried and
\* no upload element touched, whether or not the page has a drop zone.
C27_NoInputNoStrategy ==
    [][/\ (methodsTried = << >> /\ methodsTried' # << >>) =>
             /\ upc = "converting"
             /\ uploadDom.fileInput
             /\ "lookupFileInput" \in uploadOps'
             /\ methodsTried' = <<"fileInput">>
       /\ (upc = "converting" /\ upc' # "converting"
             /\ PromiseAll(conv) = "fulfilled" /\ ~uploadDom.fileInput) =>
             /\ upc' = "done"
             /\ uresponses' = <<NoTargetError>>
             /\ methodsTried' = << >>
             /\ uploadOps' \cap StrategyOps = {}
       /\ (upc = "done" /\ uresponses = <<NoTargetError>>) =>
             (methodsTried' = << >> /\ uploadOps' \cap StrategyOps = {})
      ]_vars

\* the upload ended with 'Photo upload input not found' on a page that had
\* a drop zone and still has it
C27_Witness ==
    /\ upc = "done"
    /\ uresponses = <<NoTargetError>>
    /\ uploadDom.dropZone
    /\ ~uploadDom.fileInput
    /\ methodsTried = << >>
    /\ Len(photos) > 0


\* C28: drag-and-drop counts as succeeded whenever its drop zone was found:
\* a drag that dispatched its events ends "returned" and the upload is then
\* answered with success. The clipboard is therefore tried only after the
\* file-input strategy threw and the drag-and-drop strategy threw for want
\* of a drop zone. tryUploadMethods never returns false: no upload is
\* answered with 'All upload methods failed'.
C28_DragDropAlwaysSucceeds ==
    /\ (Len(methodResult) >= 2 /\ "dispatchDragEvent" \in uploadOps) =>
          /\ methodResult = <<"threw", "returned">>
          /\ methodsTried = <<"fileInput", "dragDrop">>
          /\ upc = "done"
          /\ uresponses = <<SuccessResponse>>
    /\ (\E k \in 1..Len(methodsTried) : methodsTried[k] = "clipboard") =>
          /\ methodsTried = <<"fileInput", "dragDrop", "clipboard">>
          /\ SubSeq(methodResult, 1, 2) = <<"threw", "threw">>
          /\ "lookupDropZone" \in uploadOps
          /\ "dispatchDragEvent" \notin uploadOps
    /\ \A k \in 1..Len(uresponses) :
          uresponses[k] # ErrorResponse("All upload methods failed")
    /\ upc = "drag" => "dispatchDragEvent" \in uploadOps

\* the file-input strategy threw, the drop zone was there, and the upload
\* was answered with success once the three drag events were dispatched
C28_Witness ==
    /\ upc = "done"
    /\ methodsTried = <<"fileInput", "dragDrop">>
    /\ methodResult = <<"threw", "returned">>
    /\ uresponses = <<SuccessResponse>>


----------------------------------------------------------------------------
(* The book lookup: BookApiService.getBookInfo and its two fetchers         *)

\* the longest ISBN text of a call
MaxIsbnLen == 3

\* the characters the cleaning keeps: /[^0-9X]/g removes every other one
IsbnChars == {"0", "1", "2", "3", "4", "5", "6", "7", "8", "9", "X"}

\* the characters of the ISBN texts tried: a digit, the check letter, its
\* lower case and the hyphen of a printed ISBN
TypedChars == {"9", "X", "x", "-"}

IsbnTexts == UNION { [1..n -> TypedChars] : n \in 0..MaxIsbnLen }

\* isbn.replace(/[^0-9X]/g, '')
cleanIsbn(isbn) == SelectSeq(isbn, LAMBDA c : c \in IsbnChars)

\* the order in which getBookInfo calls the fetchers
providers == <<"google", "openlibrary">>

\* a fetcher's return value: null, or the record built for the ISBN asked
Null == [source |-> "null", isbn |-> << >>]
BookRecord(p, isbn) == [source |-> p, isbn |-> isbn]

Request(p, isbn) == [provider |-> p, isbn |-> isbn]

\* getBookInfo after `await fetcher(cleanIsbn)` gave rec: `if (!result)`
\* after the first fetcher, `return result` after the second
Yield(rec) ==
    LET got == Append(ret.yielded, rec)
    IN  IF rec = Null /\ Len(got) < Len(providers)
        THEN ret' = [ret EXCEPT !.state = "fetching",
                                !.yielded = got,
                                !.requests = Append(@,
                                    Request(providers[Len(got) + 1],
                                            cleanIsbn(call.isbn)))]
        ELSE ret' = [ret EXCEPT !.state = "returned",
                                !.yielded = got,
                                !.result = rec]

\* FetcherCatch as if the fetcher let its error out: getBookInfo rejects
FetcherCatchRethrows == ret' = [ret EXCEPT !.state = "threw"]

\* the fetcher's catch: console.error, return null
FetcherCatch == Yield(Null)

\* one call of getBookInfo with any ISBN text
InitBookInfo ==
    /\ visible = Fields
    /\ uploadDom = [fileInput |-> TRUE, dropZone |-> TRUE]
    /\ InitRuns
    /\ InitUploader
    /\ InitListener
    /\ InitStore
    /\ call \in [fn : {"getBookInfo"}, isbn : IsbnTexts]
    /\ ret = [state |-> "none"]

(* getBookInfo: the ISBN is cleaned and fetchFromGoogleBooks issues its      *)
(* request: await fetch(...)                                                 *)
BookInfoCall ==
    /\ call.fn = "getBookInfo"
    /\ ret.state = "none"
    /\ ret' = [state |-> "fetching",
               requests |-> <<Request(providers[1], cleanIsbn(call.isbn))>>,
               yielded |-> << >>,
               result |-> Null]
    /\ UNCHANGED <<call, avars, ivars, uvars, mvars, svars>>

(* a fetcher's fetch settles: rejected (network), or a response that is not  *)
(* ok (throw 'API request failed'), or an ok response whose body is read:    *)
(* await response.json()                                                     *)
ProviderResponds(settled) ==
    /\ call.fn = "getBookInfo"
    /\ ret.state = "fetching"
    /\ IF settled = "ok"
       THEN ret' = [ret EXCEPT !.state = "parsing"]
       ELSE FetcherCatch
    /\ UNCHANGED <<call, avars, ivars, uvars, mvars, svars>>

(* response.json() settles: rejected (not JSON), or a body without the book  *)
(* (return null), or a body whose book entry breaks the mapping (TypeError   *)
(* inside the try), or a body with the book (the record is returned)         *)
ProviderBodySettles(settled) ==
    /\ call.fn = "getBookInfo"
    /\ ret.state = "parsing"
    /\ CASE settled = "record" ->
              Yield(BookRecord(providers[Len(ret.requests)], cleanIsbn(call.isbn)))
         [] settled = "absent" -> Yield(Null)
         [] settled \in {"notJson", "malformed"} -> FetcherCatch
    /\ UNCHANGED <<call, avars, ivars, uvars, mvars, svars>>

NextBookInfo ==
    \/ BookInfoCall
    \/ \E settled \in {"rejected", "notOk", "ok"} : ProviderResponds(settled)
    \/ \E settled \in {"notJson", "absent", "malformed", "record"} :
          ProviderBodySettles(settled)

SpecBookInfo == InitBookInfo /\ [][NextBookInfo]_vars

\* C29: getBookInfo queries Google Books first and OpenLibrary only after
\* Google Books yielded no record (book absent or request failed), both with
\* the cleaned ISBN; it returns Google's record whenever there is one,
\* OpenLibrary's otherwise, null only when neither yielded a record, and it
\* never throws.
C29_GoogleFirstThenOpenLibrary ==
    (call.fn = "getBookInfo" /\ ret.state # "none") =>
        /\ ret.state \in {"fetching", "parsing", "returned"}
        /\ Len(ret.requests) \in 1..2
        /\ ret.requests[1] = Request("google", cleanIsbn(call.isbn))
        /\ Len(ret.requests) = 2 =>
              /\ ret.requests[2] = Request("openlibrary", cleanIsbn(call.isbn))
              /\ ret.yielded[1] = Null
        /\ ret.state = "returned" =>
              /\ Len(ret.yielded) = Len(ret.requests)
              /\ ret.yielded[1] # Null =>
                    (Len(ret.requests) = 1 /\ ret.result = ret.yielded[1])
              /\ ret.yielded[1] = Null =>
                    (Len(ret.requests) = 2 /\ ret.result = ret.yielded[2])
              /\ ret.result = Null <=>
                    \A k \in 1..Len(ret.yielded) : ret.yielded[k] = Null
              /\ ret.result # Null =>
                    ret.result.source = ret.requests[Len(ret.requests)].provider

\* Google Books failed, OpenLibrary had the book, and the ISBN had been
\* typed with a hyphen
C29_Witness ==
    /\ call.fn = "getBookInfo"
    /\ ret.state = "returned"
    /\ call.isbn = <<"9", "-", "X">>
    /\ ret.requests = <<Request("google", <<"9", "X">>),
                        Request("openlibrary", <<"9", "X">>)>>
    /\ ret.result = BookRecord("openlibrary", <<"9", "X">>)


----------------------------------------------------------------------------
(* The book store, extension-storage backend: addBook, updateBook,          *)
(* deleteBook and BookStorage.saveBooks                                     *)

\* a book of the list: its id and the operations whose updates it carries
Book(id) == [id |-> id, edits |-> {}]

Ids(list) == { list[k].id : k \in 1..Len(list) }

\* crypto.randomUUID(): an id no book has or had
UsedIds ==
    Ids(books) \cup Ids(storage)
        \cup { ops[o].id : o \in {p \in OpIds : ops[p].pc # "idle"} }

\* the list each operation computes from get().books
addBook(list, id) == Append(list, Book(id))

updateBook(list, id, o) ==
    [k \in 1..Len(list) |->
        IF list[k].id = id
        THEN [list[k] EXCEPT !.edits = @ \cup {o}]
        ELSE list[k]]

deleteBook(list, id) == SelectSeq(list, LAMBDA b : b.id # id)

Computed(kind, id, o) ==
    CASE kind = "addBook" -> addBook(books, id)
      [] kind = "updateBook" -> updateBook(books, id, o)
      [] kind = "deleteBook" -> deleteBook(books, id)

\* the store after fetchBooks: memory and storage agree
InitBookStore ==
    /\ visible = Fields
    /\ uploadDom = [fileInput |-> TRUE, dropZone |-> TRUE]
    /\ InitRuns
    /\ InitUploader
    /\ InitListener
    /\ NoEngineCall
    /\ books \in {<< >>, <<Book("b1")>>}
    /\ storage = books
    /\ ops = [o \in OpIds |-> [pc |-> "idle"]]
    /\ saveQueue = << >>

(* addBook / updateBook / deleteBook up to the await inside saveBooks: the   *)
(* new list is computed from get().books and storage.local.set is called     *)
StoreBegin(o, kind, id) ==
    /\ ops[o].pc = "idle"
    /\ IF kind = "addBook" THEN id \notin UsedIds ELSE id \in Ids(books)
    /\ ops' = [p \in OpIds |->
                 IF p = o
                 THEN [pc |-> "saving", kind |-> kind, id |-> id,
                       list |-> Computed(kind, id, o),
                       overlapped |-> \E q \in OpIds : ops[q].pc = "saving"]
                 ELSE IF ops[p].pc = "saving"
                 THEN [ops[p] EXCEPT !.overlapped = TRUE]
                 ELSE ops[p]]
    /\ saveQueue' = Append(saveQueue, o)
    /\ UNCHANGED <<books, storage>>
    /\ UNCHANGED <<avars, ivars, uvars, evars, mvars>>

(* the oldest storage.local.set settles. Fulfilled: the list is persisted,   *)
(* saveBooks returns and the operation runs set({ books }). Rejected:        *)
(* saveBooks throws 'Failed to save to Chrome storage', the operation's      *)
(* catch records the error and rethrows; the list in memory is untouched     *)
StoreSaveSettles(ok) ==
    /\ saveQueue # << >>
    /\ LET o == Head(saveQueue)
       IN  IF ok
           THEN /\ storage' = ops[o].list
                /\ books' = ops[o].list
                /\ ops' = [ops EXCEPT ![o].pc = "done"]
           ELSE /\ ops' = [ops EXCEPT ![o].pc = "failed"]
                /\ UNCHANGED <<books, storage>>
    /\ saveQueue' = Tail(saveQueue)
    /\ UNCHANGED <<avars, ivars, uvars, evars, mvars>>

StoreKinds == {"addBook", "updateBook", "deleteBook"}

NextBookStore ==
    \/ \E o \in OpIds, kind \in StoreKinds, id \in BookIds : StoreBegin(o, kind, id)
    \/ \E ok \in BOOLEAN : StoreSaveSettles(ok)

SpecBookStore == InitBookStore /\ [][NextBookStore]_vars

\* the effect of operation o is there in a list
Reflects(o, list) ==
    CASE ops[o].kind = "addBook" -> ops[o].id \in Ids(list)
      [] ops[o].kind = "deleteBook" -> ops[o].id \notin Ids(list)
      [] ops[o].kind = "updateBook" ->
            \A k \in 1..Len(list) :
                list[k].id = ops[o].id => o \in list[k].edits

\* C30: no update is lost under interleaving: when two store operations
\* were started before either had finished and both completed successfully,
\* the list in memory and the persisted list both show the effect of each.
C30_NoLostUpdate ==
    (\A o \in OpIds : ops[o].pc = "done" /\ ops[o].overlapped) =>
        \A o \in OpIds : Reflects(o, books) /\ Reflects(o, storage)

====
